---------------------------- MODULE Spec2Model ----------------------------
(***************************************************************************)
(* A model of the bot fleet of MOQTADA-DEV/bot-Minecraft-AI.               *)
(*                                                                         *)
(* Part I models the three slot-scheduler scripts (src/unnamed/part_000,   *)
(* part_001, part_002): the arrays activeBots and scheduleDelays, the     *)
(* bots made by createBot, and the pending setTimeout callbacks.  The     *)
(* three scripts differ, for the scheduler, only in the penalty that      *)
(* delayAllSchedulesOneMinute adds (60 in part_001, 1 in the other two).  *)
(*                                                                         *)
(* Part II models the life cycle of a BotAgent of the RL fleet            *)
(* (src/bot.js): connect, the spawn / end / error handlers, the periodic  *)
(* _think tick and its death branch.                                      *)
(*                                                                         *)
(* Part III models one QAgent of src/bot.js: remember, trainModel,        *)
(* chooseAction, the restore started by the constructor, saveModel, and   *)
(* the anti-stall test of _think.                                         *)
(*                                                                         *)
(* Node runs every callback to completion on one thread, so each handler  *)
(* is one action; an await inside an async handler splits it in two.      *)
(***************************************************************************)
EXTENDS Integers, Sequences, FiniteSets, Bags, TLC

(***************************************************************************)
(* Bounds of the model.                                                    *)
(***************************************************************************)
\* Number of slots.  The scripts set maxBots = 20; the model keeps the name
\* and scales the fleet down.
maxBots == 2
\* createBot calls in one run (the scripts never stop creating bots).
MaxCreated == 3
\* Connection-class errors handled in one run (the scripts put no limit).
MaxFailures == 2
\* Number of BotAgents of the RL fleet (DEFAULT_BOT_COUNT in src/bot.js).
NumAgents == 2
\* Health points of an RL bot as the game client reports them, scaled down.
MaxHealth == 2
\* _think invocations of one agent that may be suspended at the same time.
MaxInFlight == 2

(***************************************************************************)
(* Program constants.                                                      *)
(***************************************************************************)
baseInterval == 300
maxInterval == 360
botLifetime == 6000000
CooldownMs == 60000

null == 0

VARIABLES
    variant,         \* which script runs: 1 for part_001, 2 for part_000 and part_002
    activeBots,      \* slot -> the bot recorded as its occupant, or null
    scheduleDelays,  \* slot -> accumulated delay, in seconds
    bots,            \* the bots made by createBot so far, in creation order
    timers,          \* bag of the setTimeout callbacks not yet run
    failures,        \* history: calls of delayAllSchedulesOneMinute so far
    skippedFire,     \* history: a scheduled callback has found its slot occupied
    session,         \* RL agent -> state of its mineflayer session
    thinkInterval,   \* RL agent -> its setInterval handle is armed
    health,          \* RL agent -> bot.health
    inFlight,        \* RL agent -> _think invocations awaiting _executeBotAction
    lastState,       \* RL agent -> lastState / lastAction are set
    mcData,          \* the module-level minecraft-data table is loaded
    params,          \* QAgent: the hyperparameters the constructor was given
    replayBuffer,    \* QAgent: this.replayBuffer, a sequence of transitions
    pushes,          \* history: remember calls so far
    updateCount,     \* QAgent: this.updateCount
    model,           \* QAgent: the weights of this.model, the live network
    targetModel,     \* QAgent: the weights of this.targetModel
    epsilon,         \* QAgent: this.epsilon, in thousandths
    fitting,         \* QAgent: the model.fit call trainModel awaits, or null
    loadState,       \* QAgent: the _loadModel call the constructor started
    saved,           \* the weights in the agent's directory on disk, or null
    unhandled,       \* an exception has escaped a QAgent method to its caller
    consecutiveIdleActions,  \* BotAgent: this.consecutiveIdleActions
    chosen,          \* the last chooseAction result and the branch it took
    skippedAt,       \* history: buffer lengths at which trainModel returned early
    args,            \* the arguments drawn for one call of a function of BotAgent
    returned,        \* what that call returned, or None before the call
    world,           \* what the game client reports to the agent that thinks
    tick,            \* the _think invocation of that agent and where it stands
    agent,           \* its BotAgent fields: lastState, lastAction
    calls,           \* the calls the current tick has made on qAgent and disconnect
    ticks,           \* number of ticks begun
    configFile,      \* bots_config.json: the persisted list of usernames, or None
    managed,         \* BotManager: this.bots, by username and state of the session
    manager,         \* where initializeBots or disconnectAllBots stands
    journal          \* history: what the shutdown has done, in order

schedVars == <<variant, activeBots, scheduleDelays, bots, timers, failures,
               skippedFire>>
rlVars == <<session, thinkInterval, health, inFlight, lastState, mcData>>
qVars == <<params, replayBuffer, pushes, updateCount, model, targetModel, epsilon,
           fitting, loadState, saved, unhandled, consecutiveIdleActions, chosen,
           skippedAt>>
botVars == <<args, returned, world, tick, agent, calls, ticks>>
managerVars == <<configFile, managed, manager, journal>>
vars == <<variant, activeBots, scheduleDelays, bots, timers, failures, skippedFire,
          session, thinkInterval, health, inFlight, lastState, mcData,
          params, replayBuffer, pushes, updateCount, model, targetModel, epsilon,
          fitting, loadState, saved, unhandled, consecutiveIdleActions, chosen,
          skippedAt, args, returned, world, tick, agent, calls, ticks,
          configFile, managed, manager, journal>>

(***************************************************************************)
(* Part I.  The slot scheduler.                                            *)
(***************************************************************************)
Slots == 0 .. (maxBots - 1)
\* part_000 and part_002 are the same program in every line modelled here.
Variants == {1, 2}

\* The bots createBot(botIndex) has made so far are numbered 1, 2, ... in
\* creation order: bots[botIndex][b] is the state of the b-th one's session.
BotsOf(botIndex) == 1 .. Len(bots[botIndex])

RECURSIVE Total(_, _)
Total(f, S) ==
    IF S = {} THEN 0
    ELSE LET x == CHOOSE y \in S : TRUE IN f[x] + Total(f, S \ {x})
Created == Total([i \in Slots |-> Len(bots[i])], Slots)

\* scheduleDelays[i] += 60 in part_001, += 1 in part_000 and part_002.
PenaltyUnit == IF variant = 1 THEN 60 ELSE 1

\* Mutant: the interval is returned in seconds, not milliseconds.
getIntervalForBot_seconds(botNumber) ==
    baseInterval + (botNumber % (maxInterval - baseInterval + 1))
        + scheduleDelays[botNumber]

getIntervalForBot(botNumber) ==
    (baseInterval + (botNumber % (maxInterval - baseInterval + 1))
        + scheduleDelays[botNumber]) * 1000

\* Mutant: the loop stops one slot early.
delayAllSchedulesOneMinute_skipsLast ==
    [i \in Slots |-> IF i = maxBots - 1 THEN scheduleDelays[i]
                                        ELSE scheduleDelays[i] + PenaltyUnit]

\* Mutant: only the first slot is delayed.
delayAllSchedulesOneMinute_firstOnly ==
    [i \in Slots |-> IF i = 0 THEN scheduleDelays[i] + PenaltyUnit
                              ELSE scheduleDelays[i]]

delayAllSchedulesOneMinute ==
    [i \in Slots |-> scheduleDelays[i] + PenaltyUnit]

\* A pending setTimeout callback: what it will run and the delay it was armed with.
Timer(kind, botIndex, bot, ms) ==
    [kind |-> kind, botIndex |-> botIndex, bot |-> bot, ms |-> ms]

ScheduleTimer(botIndex, ms) == Timer("schedule", botIndex, null, ms)
\* Mutant: the error handler calls scheduleNextBot at once, with no cooldown.
CooldownTimer_none(botIndex) ==
    Timer("schedule", botIndex, null, getIntervalForBot(botIndex))

CooldownTimer(botIndex) == Timer("cooldown", botIndex, null, CooldownMs)
LifetimeTimer(botIndex, bot) == Timer("lifetime", botIndex, bot, botLifetime)

setTimeout(tm, t) == tm (+) SetToBag({t})
Fired(tm, t) == tm (-) SetToBag({t})
Pending == BagToSet(timers)

\* Mutant: the timer is armed twice.
scheduleNextBot_twice(botIndex, tm) ==
    tm (+) SetToBag({Timer("schedule", botIndex, null, getIntervalForBot(botIndex))})
       (+) SetToBag({Timer("schedule", botIndex, null, getIntervalForBot(botIndex))})

\* scheduleNextBot(botIndex) arms one timer for getIntervalForBot(botIndex),
\* read from the delays as they are when it is called; tm is the bag it adds to.
scheduleNextBot(botIndex, tm) ==
    setTimeout(tm, ScheduleTimer(botIndex, getIntervalForBot(botIndex)))

\* The loop that ends each script: scheduleNextBot(i) for every slot.
StartupTimers ==
    SetToBag({ScheduleTimer(i, getIntervalForBot(i)) : i \in Slots})

\* The err argument of an 'error' event: its code, or its message when it has
\* no code.  ECONNREFUSED is raised only while the socket is connecting.
ErrorKinds == {"ECONNREFUSED", "ECONNRESET", "read ECONNRESET", "ETIMEDOUT"}

IsConnectionError(err) ==
    err \in {"ECONNREFUSED", "ECONNRESET", "read ECONNRESET"}

\* A session is "connecting", then "spawned"; "failed" once its socket has
\* raised a fatal error and "quitting" once bot.quit() has closed it, each until
\* the 'end' event that follows is delivered; then "ended".
\* That 'end' event arrives within the same moment, before any timer runs (all
\* timers are armed for 60 s or longer).
Closing ==
    \E i \in Slots : \E b \in BotsOf(i) : bots[i][b] \in {"failed", "quitting"}

\* mineflayer.createBot plus the three bot.on registrations.
createBot(botIndex) ==
    bots' = [bots EXCEPT ![botIndex] = Append(@, "connecting")]

\* Mutant: the callback creates a bot without looking at the slot.
SlotFree_unchecked(botIndex) == TRUE

\* The test !activeBots[botIndex] of the scheduled callback.
SlotFree(botIndex) == activeBots[botIndex] = null

\* The callback armed by scheduleNextBot.
ScheduleTimerFire(t) ==
    /\ t \in Pending
    /\ t.kind = "schedule"
    /\ ~Closing
    /\ timers' = Fired(timers, t)
    /\ IF SlotFree(t.botIndex)
          THEN /\ Created < MaxCreated
               /\ createBot(t.botIndex)
               /\ UNCHANGED skippedFire
          ELSE /\ UNCHANGED bots
               /\ skippedFire' = TRUE
    /\ UNCHANGED <<variant, activeBots, scheduleDelays, failures>>
    /\ UNCHANGED <<rlVars, qVars, botVars, managerVars>>

\* Mutant: a successful spawn resets the accumulated delays.
SpawnEvent_resetsDelays(botIndex, b) ==
    /\ bots[botIndex][b] = "connecting"
    /\ bots' = [bots EXCEPT ![botIndex][b] = "spawned"]
    /\ activeBots' = [activeBots EXCEPT ![botIndex] = b]
    /\ timers' = setTimeout(timers, LifetimeTimer(botIndex, b))
    /\ scheduleDelays' = [i \in Slots |-> 0]
    /\ UNCHANGED <<variant, failures, skippedFire>>
    /\ UNCHANGED <<rlVars, qVars, botVars, managerVars>>

\* bot.on('spawn').  The model delivers one spawn per bot, its first.
SpawnEvent(botIndex, b) ==
    /\ bots[botIndex][b] = "connecting"
    /\ bots' = [bots EXCEPT ![botIndex][b] = "spawned"]
    /\ activeBots' = [activeBots EXCEPT ![botIndex] = b]
    /\ timers' = setTimeout(timers, LifetimeTimer(botIndex, b))
    /\ UNCHANGED <<variant, scheduleDelays, failures, skippedFire>>
    /\ UNCHANGED <<rlVars, qVars, botVars, managerVars>>

\* The callback armed by the spawn handler, botLifetime later: bot.quit(),
\* which closes the session if it is still up, then the slot is cleared and
\* scheduled.
LifetimeTimerFire(t) ==
    /\ t \in Pending
    /\ t.kind = "lifetime"
    /\ ~Closing
    /\ bots' = [bots EXCEPT ![t.botIndex][t.bot] =
                   IF @ = "spawned" THEN "quitting" ELSE @]
    /\ activeBots' = [activeBots EXCEPT ![t.botIndex] = null]
    /\ timers' = scheduleNextBot(t.botIndex, Fired(timers, t))
    /\ UNCHANGED <<variant, scheduleDelays, failures, skippedFire>>
    /\ UNCHANGED <<rlVars, qVars, botVars, managerVars>>

\* bot.on('error').  fatal: the error closes the socket (every connection
\* error does; another error may leave the session up).
ErrorEvent(botIndex, b, err, fatal) ==
    /\ bots[botIndex][b] \in {"connecting", "spawned"}
    /\ err = "ECONNREFUSED" => bots[botIndex][b] = "connecting"
    /\ IsConnectionError(err) => fatal
    /\ bots' = [bots EXCEPT ![botIndex][b] = IF fatal THEN "failed" ELSE @]
    /\ IF IsConnectionError(err)
          THEN /\ failures < MaxFailures
               /\ scheduleDelays' = delayAllSchedulesOneMinute
               /\ failures' = failures + 1
               /\ timers' = setTimeout(timers, CooldownTimer(botIndex))
          ELSE UNCHANGED <<scheduleDelays, failures, timers>>
    /\ UNCHANGED <<variant, activeBots, skippedFire>>
    /\ UNCHANGED <<rlVars, qVars, botVars, managerVars>>

\* The callback armed by the error handler, 60 s later.
CooldownTimerFire(t) ==
    /\ t \in Pending
    /\ t.kind = "cooldown"
    /\ ~Closing
    /\ timers' = scheduleNextBot(t.botIndex, Fired(timers, t))
    /\ UNCHANGED <<variant, activeBots, scheduleDelays, bots, failures, skippedFire>>
    /\ UNCHANGED <<rlVars, qVars, botVars, managerVars>>

\* bot.on('end'): the session is over, whoever ended it.
EndEvent(botIndex, b) ==
    /\ bots[botIndex][b] # "ended"
    /\ bots' = [bots EXCEPT ![botIndex][b] = "ended"]
    /\ activeBots' = [activeBots EXCEPT ![botIndex] = null]
    /\ UNCHANGED <<variant, scheduleDelays, timers, failures, skippedFire>>
    /\ UNCHANGED <<rlVars, qVars, botVars, managerVars>>

\* The state after the script's last line: no bot yet, every slot scheduled.
InitSched ==
    /\ variant \in Variants
    /\ activeBots = [i \in Slots |-> null]
    /\ scheduleDelays = [i \in Slots |-> 0]
    /\ bots = [i \in Slots |-> << >>]
    /\ failures = 0
    /\ skippedFire = FALSE
    /\ timers = StartupTimers

(***************************************************************************)
(* The BotAgents of src/bot.js.  Agent a is this.bots[a - 1] of the         *)
(* BotManager; its session is the mineflayer bot made by connect().        *)
(***************************************************************************)
Agents == 1 .. NumAgents

\* this.bot.client.socket.readyState === 'open', as _think finds it.
SocketOpen(a) == session[a] = "spawned"

\* BotAgent.disconnect: bot.quit() if the socket is open, else nothing.
disconnect(a) ==
    session' = [session EXCEPT ![a] = IF SocketOpen(a) THEN "quitting" ELSE @]

\* BotAgent._onSpawn, for the first spawn and for each respawn after a death:
\* the episode variables are reset and the think interval is armed anew.
OnSpawn(a) ==
    /\ \/ session[a] = "connecting"
       \/ session[a] = "spawned" /\ health[a] = 0
    /\ session' = [session EXCEPT ![a] = "spawned"]
    /\ health' = [health EXCEPT ![a] = MaxHealth]
    /\ lastState' = [lastState EXCEPT ![a] = FALSE]
    /\ thinkInterval' = [thinkInterval EXCEPT ![a] = TRUE]
    /\ mcData' = TRUE
    /\ UNCHANGED inFlight
    /\ UNCHANGED <<schedVars, qVars, botVars, managerVars>>

\* A run of the setInterval callback: BotAgent._think up to its
\* await this._executeBotAction(actionId).
ThinkTick(a) ==
    /\ thinkInterval[a]
    /\ inFlight[a] < MaxInFlight
    /\ IF mcData
          THEN inFlight' = [inFlight EXCEPT ![a] = @ + 1]
          ELSE UNCHANGED inFlight
    /\ UNCHANGED <<session, thinkInterval, health, lastState, mcData>>
    /\ UNCHANGED <<schedVars, qVars, botVars, managerVars>>

\* The rest of _think once _executeBotAction has resolved: lastState and
\* lastAction are written and, if the bot is dead, the death branch ends with
\* this.disconnect().
ThinkResume(a) ==
    /\ inFlight[a] > 0
    /\ inFlight' = [inFlight EXCEPT ![a] = @ - 1]
    /\ lastState' = [lastState EXCEPT ![a] = TRUE]
    /\ IF health[a] <= 0
          THEN disconnect(a)
          ELSE UNCHANGED session
    /\ UNCHANGED <<thinkInterval, health, mcData>>
    /\ UNCHANGED <<schedVars, qVars, botVars, managerVars>>

\* The game: the bot loses health.
Hurt(a) ==
    /\ session[a] = "spawned"
    /\ health[a] > 0
    /\ health' = [health EXCEPT ![a] = @ - 1]
    /\ UNCHANGED <<session, thinkInterval, inFlight, lastState, mcData>>
    /\ UNCHANGED <<schedVars, qVars, botVars, managerVars>>

\* BotAgent._onError: the weights are saved, nothing else.  fatal: the error
\* has closed the socket.
OnError(a, fatal) ==
    /\ session[a] \in {"connecting", "spawned"}
    /\ session' = [session EXCEPT ![a] = IF fatal THEN "failed" ELSE @]
    /\ UNCHANGED <<thinkInterval, health, inFlight, lastState, mcData>>
    /\ UNCHANGED <<schedVars, qVars, botVars, managerVars>>

\* BotAgent._onEnd: the think interval is cleared and the weights are saved.
OnEnd(a) ==
    /\ session[a] # "ended"
    /\ session' = [session EXCEPT ![a] = "ended"]
    /\ thinkInterval' = [thinkInterval EXCEPT ![a] = FALSE]
    /\ UNCHANGED <<health, inFlight, lastState, mcData>>
    /\ UNCHANGED <<schedVars, qVars, botVars, managerVars>>

\* The fleet once initializeBots has made and connected every agent.
InitRL ==
    /\ session = [a \in Agents |-> "connecting"]
    /\ thinkInterval = [a \in Agents |-> FALSE]
    /\ health = [a \in Agents |-> MaxHealth]
    /\ inFlight = [a \in Agents |-> 0]
    /\ lastState = [a \in Agents |-> FALSE]
    /\ mcData = FALSE

(***************************************************************************)
(* Part III.  One QAgent of src/bot.js: its replay buffer, its two         *)
(* networks, its exploration rate, and the part of BotAgent._think that    *)
(* chooses an action and writes epsilon.                                   *)
(*                                                                         *)
(* The networks are TensorFlow.js models.  The model keeps of a network    *)
(* only its weights: a record (base, steps) names the weights reached      *)
(* from base by steps optimization steps of fit, and predict is a fixed   *)
(* table over them.  epsilon and minEpsilon are counted in thousandths,    *)
(* epsilonDecay in ten-thousandths, discountFactor and the training        *)
(* targets in hundredths; a product is rounded down to the unit.           *)
(*                                                                         *)
(* The restore the constructor starts reads one directory and settles      *)
(* within milliseconds; the first tick of an agent comes a second after    *)
(* its spawn.  So remember, trainModel and chooseAction run once the       *)
(* restore has settled, while saveModel (the surplus identities, an early  *)
(* connection error) may run before.  model.fit admits one call at a time  *)
(* on a model: a tick that would start while a fit is in progress is not   *)
(* followed, only saveModel (the error and end handlers) runs meanwhile.   *)
(***************************************************************************)
\* params.replayBufferSize, params.batchSize and params.targetUpdateFreq of
\* the constructor (200000, 64 and 200 when not given), scaled down.
replayBufferSize == 2
batchSize == 2
targetUpdateFreq == 2
\* remember calls and optimization steps in one run.
MaxPushes == 3
MaxUpdates == 4
\* OUTPUT_NODES (23 actions) and the observations of the bot's state (25
\* numbers each), scaled down.
outputDim == 3
NumObservations == 2

\* The IDLE choices in a row that the anti-stall test of _think lets pass
\* (15 in the source), scaled down.
IdleLimit == 2

\* params.discountFactor when not given, in hundredths.
discountFactor == 99
\* The anti-stall test of _think: more than IdleLimit IDLE choices in a row
\* while epsilon < 0.1 set epsilon to 0.3.
BoostBelow == 100
BoostEpsilon == 300
\* ACTIONS.IDLE, one of the action ids.
IDLE == 1

\* The hyperparameters new QAgent(...) is given.  BotManager gives none, so
\* the fleet runs on DefaultParams; the others are agentParams a caller of
\* new BotAgent(username, agentParams) may pass.
DefaultParams == [epsilon |-> 1000, epsilonDecay |-> 9995, minEpsilon |-> 5]
QuickParams == [epsilon |-> 200, epsilonDecay |-> 5000, minEpsilon |-> 5]
GreedyParams == [epsilon |-> 0, epsilonDecay |-> 9995, minEpsilon |-> 0]
Params == {DefaultParams, QuickParams, GreedyParams}

ActionIds == 0 .. (outputDim - 1)
Observations == 0 .. (NumObservations - 1)

\* The weights _buildQNetwork draws, and the weights an earlier run of the
\* program has saved.
Built == [base |-> "built", steps |-> 0]
Prior == [base |-> "prior", steps |-> 0]

\* One optimization step of model.fit on the weights w.
Fit(w) == [w EXCEPT !.steps = @ + 1]

\* network.predict(state) with weights w: one Q-value per action.
predict(w, state) ==
    [a \in ActionIds |->
        ((w.steps + 1) * (a + 1) + state + (IF w.base = "prior" THEN 1 ELSE 0)) % 2]

\* tf.max over a row of Q-values.
max(q) == CHOOSE m \in {q[a] : a \in ActionIds} : \A a \in ActionIds : q[a] <= m

\* Mutant: the last index of the maximum.
argMax_last(q) ==
    CHOOSE a \in ActionIds :
        q[a] = max(q) /\ \A b \in ActionIds : b > a => q[b] < q[a]

\* qValues.argMax(-1): the index of the maximum, the first one on a tie.
argMax(q) ==
    CHOOSE a \in ActionIds :
        q[a] = max(q) /\ \A b \in ActionIds : b < a => q[b] < q[a]

\* The tuple [state, action, reward, nextState, done] of the id-th remember
\* call.  id is not in the tuple: it names the call that stored it.
Transition(id, done) ==
    [id |-> id, state |-> id % NumObservations, action |-> id % outputDim,
     reward |-> 5 * id - 10, nextState |-> (id + 1) % NumObservations,
     done |-> done]

\* Mutant: the buffer is cut as soon as it is full.
remember_cutsWhenFull(buffer, t) ==
    LET pushed == Append(buffer, t)
    IN  IF Len(pushed) >= replayBufferSize THEN Tail(pushed) ELSE pushed

\* QAgent.remember: push, then shift if the buffer is over its size.
remember(buffer, t) ==
    LET pushed == Append(buffer, t)
    IN  IF Len(pushed) > replayBufferSize THEN Tail(pushed) ELSE pushed

\* Mutant: the shuffle may copy one transition over another.
Shuffles_overwriting(buffer) ==
    LET n == Len(buffer)
    IN  {[i \in 1 .. n |-> buffer[p[i]]] : p \in [1 .. n -> 1 .. n]}

\* this.replayBuffer.sort(() => 0.5 - Math.random()): Array.prototype.sort
\* sorts in place, and a comparator that answers at random may leave the
\* elements in any order.
Shuffles(buffer) ==
    LET n == Len(buffer)
        perms == {p \in [1 .. n -> 1 .. n] : \A i, j \in 1 .. n : p[i] = p[j] => i = j}
    IN  {[i \in 1 .. n |-> buffer[p[i]]] : p \in perms}

\* Mutant: the target is synchronised half as often.
ShouldSync_halfAsOften(count) == count % (2 * targetUpdateFreq) = 0

\* this.updateCount % this.targetUpdateFreq === 0
ShouldSync(count) == count % targetUpdateFreq = 0

\* Mutant: the next state is valued by the live network.
TargetQ_liveNext(t, live, target) ==
    [a \in ActionIds |->
        IF a = t.action
           THEN IF t.done
                   THEN 100 * t.reward
                   ELSE 100 * t.reward + discountFactor * max(predict(live, t.nextState))
           ELSE 100 * predict(live, t.state)[a]]

\* The row of targetQValues for one transition of the batch, in hundredths:
\* the live prediction for its state, with the entry of its action replaced.
TargetQ(t, live, target) ==
    [a \in ActionIds |->
        IF a = t.action
           THEN IF t.done
                   THEN 100 * t.reward
                   ELSE 100 * t.reward + discountFactor * max(predict(target, t.nextState))
           ELSE 100 * predict(live, t.state)[a]]

\* Mutant: epsilon decays below minEpsilon.
Decay_noFloor(eps) == (eps * params.epsilonDecay) \div 10000

\* Math.max(this.minEpsilon, this.epsilon * this.epsilonDecay)
Decay(eps) ==
    LET decayed == (eps * params.epsilonDecay) \div 10000
    IN  IF decayed > params.minEpsilon THEN decayed ELSE params.minEpsilon

\* A field that holds nothing, or the value x.
None == << >>
Some(x) == <<x>>

\* QAgent.remember, called with a new transition.
Remember(done) ==
    /\ loadState # "pending"
    /\ fitting = None
    /\ pushes < MaxPushes
    /\ replayBuffer' = remember(replayBuffer, Transition(pushes + 1, done))
    /\ pushes' = pushes + 1
    /\ UNCHANGED <<params, updateCount, model, targetModel, epsilon, fitting,
                   loadState, saved, unhandled, consecutiveIdleActions, chosen,
                   skippedAt>>
    /\ UNCHANGED <<schedVars, rlVars, botVars, managerVars>>

\* Mutant: a buffer of exactly batchSize transitions is too small as well.
TooFew_orJustEnough(buffer) == Len(buffer) <= batchSize

\* this.replayBuffer.length < this.batchSize
TooFew(buffer) == Len(buffer) < batchSize

\* QAgent.trainModel up to its await of model.fit: the early return, or the
\* update counter, the target synchronisation, the shuffle, the batch (the
\* first batchSize transitions) and the call of fit on the batch's targets.
TrainModel ==
    /\ loadState # "pending"
    /\ fitting = None
    /\ IF TooFew(replayBuffer)
          THEN /\ skippedAt' = skippedAt \cup {Len(replayBuffer)}
               /\ UNCHANGED <<replayBuffer, updateCount, targetModel, fitting>>
          ELSE /\ updateCount < MaxUpdates
               /\ updateCount' = updateCount + 1
               /\ targetModel' = IF ShouldSync(updateCount + 1) THEN model ELSE targetModel
               /\ \E sorted \in Shuffles(replayBuffer) :
                     /\ replayBuffer' = sorted
                     /\ fitting' = Some([i \in 1 .. batchSize |->
                                            TargetQ(sorted[i], model, targetModel')])
               /\ UNCHANGED skippedAt
    /\ UNCHANGED <<params, pushes, model, epsilon, loadState, saved, unhandled,
                   consecutiveIdleActions, chosen>>
    /\ UNCHANGED <<schedVars, rlVars, botVars, managerVars>>

\* The rest of trainModel once fit has resolved: the live network has made
\* one optimization step, and epsilon decays.
TrainModelResume ==
    /\ fitting # None
    /\ model' = Fit(model)
    /\ fitting' = None
    /\ epsilon' = Decay(epsilon)
    /\ UNCHANGED <<params, replayBuffer, pushes, updateCount, targetModel, loadState,
                   saved, unhandled, consecutiveIdleActions, chosen, skippedAt>>
    /\ UNCHANGED <<schedVars, rlVars, botVars, managerVars>>

\* Mutant: an error that is not ENOENT is thrown again.
Rethrown_unlessENOENT(e) == e # "ENOENT"

\* The catch blocks of _loadModel and saveModel log the error e and return.
Rethrown(e) == FALSE

\* What fs.access and tf.loadLayersModel may answer.
LoadOutcomes == IF saved = None THEN {"ENOENT"} ELSE {"loaded", "EIO"}

\* Mutant: a restore leaves the target network alone.
Restored_liveOnly(w) == [model |-> w, targetModel |-> targetModel]

\* The two networks after a restore of the weights w.
Restored(w) == [model |-> w, targetModel |-> w]

\* The rest of QAgent._loadModel once its awaits have settled: the weights
\* are in, or an error is caught.
LoadModelResume(outcome) ==
    /\ loadState = "pending"
    /\ outcome \in LoadOutcomes
    /\ loadState' = outcome
    /\ IF outcome = "loaded"
          THEN /\ model' = Restored(saved[1]).model
               /\ targetModel' = Restored(saved[1]).targetModel
               /\ epsilon' = params.minEpsilon
               /\ UNCHANGED unhandled
          ELSE /\ unhandled' = (unhandled \/ Rethrown(outcome))
               /\ UNCHANGED <<model, targetModel, epsilon>>
    /\ UNCHANGED <<params, replayBuffer, pushes, updateCount, fitting, saved,
                   consecutiveIdleActions, chosen, skippedAt>>
    /\ UNCHANGED <<schedVars, rlVars, botVars, managerVars>>

\* QAgent.saveModel: the live weights are written, or an error is caught.
SaveModel(ok) ==
    /\ saved' = IF ok THEN Some(model) ELSE saved
    /\ unhandled' = (unhandled \/ (~ok /\ Rethrown("EIO")))
    /\ UNCHANGED <<params, replayBuffer, pushes, updateCount, model, targetModel,
                   epsilon, fitting, loadState, consecutiveIdleActions, chosen,
                   skippedAt>>
    /\ UNCHANGED <<schedVars, rlVars, botVars, managerVars>>

\* Math.random(), in thousandths: the draws on each side of epsilon.
RandomDraws == {r \in {0, epsilon - 1, epsilon, 999} : r \in 0 .. 999}

\* QAgent.chooseAction(state), r and pick being its two random draws.
chooseAction(state, r, pick) ==
    IF r < epsilon
       THEN [action |-> pick, random |-> TRUE]
       ELSE [action |-> argMax(predict(model, state)), random |-> FALSE]

\* this.consecutiveIdleActions > 15 && this.qAgent.epsilon < 0.1
Stalled(idle) == idle > IdleLimit /\ epsilon < BoostBelow

\* QAgent.chooseAction called on its own; the call and its result are kept.
ChooseAction(state, r, pick) ==
    /\ loadState # "pending"
    /\ fitting = None
    /\ LET choice == chooseAction(state, r, pick)
       IN  chosen' = Some([state |-> state, action |-> choice.action,
                           random |-> choice.random])
    /\ UNCHANGED <<params, replayBuffer, pushes, updateCount, model, targetModel,
                   epsilon, fitting, loadState, saved, unhandled,
                   consecutiveIdleActions, skippedAt>>
    /\ UNCHANGED <<schedVars, rlVars, botVars, managerVars>>

\* What chooseAction may answer in this state.
Choices ==
    {chooseAction(state, r, pick) :
        state \in Observations, r \in RandomDraws, pick \in ActionIds}

\* BotAgent._think from chooseAction, which answers choice, to the
\* anti-stall test.
Decide(choice) ==
    /\ loadState # "pending"
    /\ fitting = None
    /\ IF choice.action = IDLE
          THEN /\ consecutiveIdleActions <= IdleLimit \/ epsilon < BoostBelow
               /\ IF Stalled(consecutiveIdleActions + 1)
                     THEN /\ epsilon' = BoostEpsilon
                          /\ consecutiveIdleActions' = 0
                     ELSE /\ consecutiveIdleActions' = consecutiveIdleActions + 1
                          /\ UNCHANGED epsilon
          ELSE /\ consecutiveIdleActions' = 0
               /\ UNCHANGED epsilon
    /\ UNCHANGED <<params, replayBuffer, pushes, updateCount, model, targetModel,
                   fitting, loadState, saved, unhandled, chosen, skippedAt>>
    /\ UNCHANGED <<schedVars, rlVars, botVars, managerVars>>

\* The QAgent the constructor leaves, given the hyperparameters p and the
\* directory content disk: both networks built, the target synchronised
\* with the live one, the restore started and not awaited.
QAgent(p, disk) ==
    /\ params = p
    /\ replayBuffer = << >>
    /\ pushes = 0
    /\ updateCount = 0
    /\ model = Built
    /\ targetModel = Built
    /\ epsilon = p.epsilon
    /\ fitting = None
    /\ loadState = "pending"
    /\ saved = disk
    /\ unhandled = FALSE
    /\ consecutiveIdleActions = 0
    /\ chosen = None
    /\ skippedAt = {}

(***************************************************************************)
(* Part IV.  The observation, the reward and the execution of an action    *)
(* of a BotAgent of src/bot.js.                                            *)
(*                                                                         *)
(* A component of the observation is a JavaScript value: a number or a     *)
(* boolean.  Numbers are counted in units of 1/960, which makes every      *)
(* quotient of _getBotState exact (health and food over 20, a count over   *)
(* 64 or over 12, a distance in blocks over 30 or over 60).  A reward of   *)
(* _calculateReward is counted in units of 1/9600, a reward of             *)
(* _executeBotAction in hundredths.                                        *)
(***************************************************************************)
\* Full stacks of one item that the inventory may hold.
MaxStacks == 2
\* Distance of the nearest other player, in steps of 30 blocks.
MaxDistance == 3

INPUT_NODES == 25
Unit == 960
FullHealth == 20
StackSize == 64
EyesNeeded == 12
HostileRange == 30
PlayerRange == 60

Number(n) == <<"number", n>>
\* !!x, a boolean; arithmetic and comparison take it as the number 1 or 0.
Boolean(b) == <<"boolean", IF b THEN Unit ELSE 0>>
ToNumber(v) == v[2]
\* a === n for a number n
StrictEquals(v, n) == v = Number(n)
\* c ? 1 : 0
Flag(c) == Number(IF c THEN Unit ELSE 0)
\* count / per, and distance / per
Ratio(n, per) == Number((n * Unit) \div per)

Pickaxes == {"wooden_pickaxe", "stone_pickaxe", "iron_pickaxe", "diamond_pickaxe"}
Counts == {StackSize * k : k \in 0 .. MaxStacks}
PlayerDistances == {None} \cup {Some(HostileRange * k) : k \in 1 .. MaxDistance}

\* What the game client reports when nothing is around and the inventory
\* is empty.
BaseWorld ==
    [health |-> FullHealth, food |-> FullHealth, isInWater |-> FALSE,
     isDay |-> TRUE, nearestHostile |-> None, hasFood |-> FALSE,
     oak_log |-> 0, cobblestone |-> 0, coal |-> 0, iron_ore |-> 0,
     iron_ingot |-> 0, obsidian |-> 0, ender_eye |-> 0, items |-> {},
     nether_portal |-> FALSE, dimension |-> "minecraft:overworld",
     recentlyDied |-> FALSE, nearestOtherPlayer |-> None]

\* The reports the model draws: the health, the oak logs and the pickaxes
\* held, and the distance of the nearest other player vary.
Worlds ==
    {[BaseWorld EXCEPT !.health = h, !.oak_log = n, !.items = p,
                       !.nearestOtherPlayer = d] :
        h \in {0, FullHealth}, n \in Counts, p \in SUBSET Pickaxes,
        d \in PlayerDistances}

\* new Array(INPUT_NODES).fill(0)
Zeros == [i \in 1 .. INPUT_NODES |-> Number(0)]

\* BotAgent._getBotState, given mcData, this.bot.entity and the reports w.
\* JavaScript counts the components from 0; component k is the element
\* k + 1 of the sequence.
_getBotState(hasMcData, hasEntity, w) ==
    IF ~hasMcData THEN Zeros
    ELSE IF ~hasEntity THEN Zeros
    ELSE
      LET healthRatio == Ratio(w.health, FullHealth)
          food == Ratio(w.food, FullHealth)
          inWater == Flag(w.isInWater)
          isDay == Flag(w.isDay)
          hasEnemyNearby == Flag(w.nearestHostile # None)
          enemyDistance == IF w.nearestHostile # None
                             THEN Ratio(w.nearestHostile[1], HostileRange)
                             ELSE Number(0)
          hasFoodInInventory == Flag(w.hasFood)
          woodCount == Ratio(w.oak_log, StackSize)
          hasWoodenPickaxe == Flag("wooden_pickaxe" \in w.items)
          stoneCount == Ratio(w.cobblestone, StackSize)
          hasStonePickaxe == Flag("stone_pickaxe" \in w.items)
          coalCount == Ratio(w.coal, StackSize)
          ironOreCount == Ratio(w.iron_ore, StackSize)
          ironIngotCount == Ratio(w.iron_ingot, StackSize)
          hasIronPickaxe == Flag("iron_pickaxe" \in w.items)
          obsidianCount == Ratio(w.obsidian, StackSize)
          hasDiamondPickaxe == Flag("diamond_pickaxe" \in w.items)
          enderEyesCount == Ratio(w.ender_eye, EyesNeeded)
          netherPortalExistsNearby == Boolean(w.nether_portal)
          inNether == Flag(w.dimension = "minecraft:the_nether")
          inEnd == Flag(w.dimension = "minecraft:the_end")
          recentlyDied == Flag(w.recentlyDied)
          hasOtherPlayerNearby == Flag(w.nearestOtherPlayer # None)
          otherPlayerDistance == IF w.nearestOtherPlayer # None
                                   THEN Ratio(w.nearestOtherPlayer[1], PlayerRange)
                                   ELSE Number(0)
      IN  <<healthRatio, food, inWater, isDay, hasEnemyNearby, enemyDistance,
            hasFoodInInventory, woodCount, hasWoodenPickaxe, stoneCount,
            hasStonePickaxe, coalCount, ironOreCount, ironIngotCount,
            hasIronPickaxe, obsidianCount, hasDiamondPickaxe, enderEyesCount,
            netherPortalExistsNearby, inNether, inEnd,
            recentlyDied, hasOtherPlayerNearby, otherPlayerDistance>>

\* state[k] of JavaScript
At(state, k) == state[k + 1]
\* A reward of h hundredths, and the reward delta * k of a difference of
\* two components, in units of 1/9600.
Hundredths(h) == h * 96
Times(delta, k) == delta * k * 10
When(c, reward) == IF c THEN reward ELSE 0
\* if (newState[k] === 1 && oldState[k] === 0)
Rose(oldState, newState, k) ==
    StrictEquals(At(newState, k), Unit) /\ StrictEquals(At(oldState, k), 0)
\* newState[k] - oldState[k]
Delta(oldState, newState, k) ==
    ToNumber(At(newState, k)) - ToNumber(At(oldState, k))
\* if (newState[k] > oldState[k]) { reward += (newState[k] - oldState[k]) * by; }
Gain(oldState, newState, k, by) ==
    When(Delta(oldState, newState, k) > 0, Times(Delta(oldState, newState, k), by))

\* BotAgent._calculateReward
_calculateReward(oldState, newState, actionSuccess) ==
    LET Fell(k) == /\ ToNumber(At(newState, k)) * 10 < 2 * Unit
                   /\ Delta(oldState, newState, k) < 0
        enemy ==
            IF StrictEquals(At(newState, 4), 0) /\ StrictEquals(At(oldState, 4), Unit)
              THEN Hundredths(2000)
            ELSE IF /\ StrictEquals(At(newState, 4), Unit)
                    /\ StrictEquals(At(oldState, 4), Unit)
                    /\ Delta(oldState, newState, 5) < 0
              THEN - Hundredths(300)
            ELSE IF Rose(oldState, newState, 4)
              THEN - Hundredths(700)
            ELSE 0
    IN  Hundredths(1)
        + Times(Delta(oldState, newState, 0), 10)
        + Times(Delta(oldState, newState, 1), 5)
        - When(Fell(0), Hundredths(1500))
        - When(Fell(1), Hundredths(1000))
        - When(Rose(oldState, newState, 21), Hundredths(5000))
        + enemy
        + Gain(oldState, newState, 8, 5)
        + Gain(oldState, newState, 9, 7)
        + Gain(oldState, newState, 11, 8)
        + Gain(oldState, newState, 12, 15)
        + Gain(oldState, newState, 13, 20)
        + Gain(oldState, newState, 16, 30)
        + Gain(oldState, newState, 18, 40)
        + When(Rose(oldState, newState, 9), Hundredths(1000))
        + When(Rose(oldState, newState, 11), Hundredths(2000))
        + When(Rose(oldState, newState, 15), Hundredths(4000))
        + When(Rose(oldState, newState, 17), Hundredths(8000))
        + When(Rose(oldState, newState, 18), Hundredths(20000))
        + When(Rose(oldState, newState, 19), Hundredths(50000))
        + When(Rose(oldState, newState, 20), Hundredths(100000))
        + When(Rose(oldState, newState, 23), Hundredths(50))
        - When(~actionSuccess, Hundredths(100))

WALK_RANDOM == 0
\* Ids that ACTIONS does not hold.
UnknownIds == {-1, outputDim}

\* How the game client answers the handler of an action: "done", the
\* operation succeeded; "unmet", the handler found nothing to act on;
\* "caught", the operation failed inside the try of the handler; "thrown",
\* an exception left the handler.  IDLE and the default branch call nothing
\* that fails; WALK_RANDOM tests nothing before it acts.
Outcomes(actionId) ==
    IF actionId \notin ActionIds \/ actionId = IDLE THEN {"done"}
    ELSE IF actionId = WALK_RANDOM THEN {"done", "caught", "thrown"}
    ELSE {"done", "unmet", "caught", "thrown"}

\* The rewards a handler assigns.  The model holds outputDim actions:
\* WALK_RANDOM, IDLE, and for every other id a handler of the common shape
\* (find a target, try the operation), with the rewards of DIG_WOOD.
Handler(actionId) ==
    IF actionId = WALK_RANDOM THEN [done |-> 10, caught |-> -10, unmet |-> 0]
    ELSE IF actionId = IDLE THEN [done |-> 5, caught |-> 0, unmet |-> 0]
    ELSE [done |-> 150, caught |-> -50, unmet |-> -20]

\* The switch statement: the locals success and actionReward when control
\* leaves it, and whether an exception carries it out.  Every handler sets
\* success = true after the last operation that may fail, so an exception
\* leaves the initial values.
Switch(actionId, outcome) ==
    IF outcome = "thrown"
      THEN [thrown |-> TRUE, success |-> FALSE, actionReward |-> 0]
    ELSE IF actionId \notin ActionIds
      THEN [thrown |-> FALSE, success |-> FALSE, actionReward |-> -5]
    ELSE [thrown |-> FALSE, success |-> (outcome = "done"),
          actionReward |-> Handler(actionId)[outcome]]

Catch_rethrows(locals) == locals
\* catch (e) { console.error(...); actionReward = -0.7; }
Catch(locals) ==
    IF locals.thrown
      THEN [locals EXCEPT !.thrown = FALSE, !.actionReward = -70]
      ELSE locals

\* BotAgent._executeBotAction: how the promise settles.
_executeBotAction(hasEntity, hasMcData, actionId, outcome) ==
    IF ~hasEntity
      THEN [rejected |-> FALSE, success |-> FALSE, actionReward |-> -100]
    ELSE IF ~hasMcData
      THEN [rejected |-> FALSE, success |-> FALSE, actionReward |-> -100]
    ELSE LET locals == Catch(Switch(actionId, outcome))
         IN  [rejected |-> locals.thrown, success |-> locals.success,
              actionReward |-> locals.actionReward]

(***************************************************************************)
(* CallSpec: one call of _getBotState, _calculateReward or                 *)
(* _executeBotAction on arguments drawn from bounded sets.                 *)
(***************************************************************************)
\* Number of reports in which two worlds differ.
Distance(v, w) ==
    (IF v.health # w.health THEN 1 ELSE 0)
    + (IF v.oak_log # w.oak_log THEN 1 ELSE 0)
    + (IF v.nearestOtherPlayer # w.nearestOtherPlayer THEN 1 ELSE 0)
    + Cardinality((v.items \ w.items) \cup (w.items \ v.items))
\* The worlds a second later: at most one report has changed, the
\* inventory by one pickaxe.
Later(w) == {v \in Worlds : Distance(v, w) <= 1}

ObserveArgs ==
    [fn : {"_getBotState"}, mcData : BOOLEAN, entity : BOOLEAN, world : Worlds]
RewardArgs ==
    UNION {{[fn |-> "_calculateReward", oldWorld |-> w, newWorld |-> v,
             actionSuccess |-> ok] : v \in Later(w), ok \in BOOLEAN} :
           w \in Worlds}
ExecuteArgs ==
    {a \in [fn : {"_executeBotAction"}, entity : BOOLEAN, mcData : BOOLEAN,
            actionId : ActionIds \cup UnknownIds,
            outcome : {"done", "unmet", "caught", "thrown"}] :
        a.outcome \in Outcomes(a.actionId)}

NoCall == args = None /\ returned = None

(***************************************************************************)
(* ThinkSpec: the ticks of one agent that has spawned, one after the       *)
(* other, step by step.  The calls the tick makes on its QAgent are        *)
(* recorded in calls; what they do to the QAgent is Part III.              *)
(***************************************************************************)
\* Ticks of the agent in one run.
MaxTicks == 3

\* The reports that vary while the agent thinks: its health and whether it
\* holds a wooden pickaxe.
ThinkWorlds ==
    {[BaseWorld EXCEPT !.health = h, !.items = p] :
        h \in {0, FullHealth}, p \in {{}, {"wooden_pickaxe"}}}

Idle == [pc |-> "idle", currentState |-> None, actionId |-> None, health |-> None]

Dead_below(h) == h < 0
\* if (this.bot.health <= 0)
Dead(h) == h <= 0

\* this.qAgent.remember(state, action, reward, nextState, done); succeeded
\* is history: the success that the action of the transition reported.
RememberCall(state, action, reward, nextState, done, succeeded) ==
    [op |-> "remember", state |-> state, action |-> action, reward |-> reward,
     nextState |-> nextState, done |-> done, succeeded |-> succeeded]
Call(op) == [op |-> op]

\* chooseAction, the anti-stall test, and the call of _executeBotAction,
\* where the tick suspends.
Choose(currentState, soFar) ==
    \E actionId \in ActionIds :
        /\ tick' = [pc |-> "acting", currentState |-> currentState,
                    actionId |-> Some(actionId), health |-> None]
        /\ calls' = Append(soFar, [op |-> "chooseAction", actionId |-> actionId])

\* _think up to its first await.
ThinkBegin(hasMcData, hasEntity) ==
    /\ tick.pc \in {"idle", "done"}
    /\ ticks < MaxTicks
    /\ ticks' = ticks + 1
    /\ IF ~hasMcData \/ ~hasEntity
         THEN tick' = Idle /\ calls' = << >>
         ELSE LET currentState == _getBotState(hasMcData, hasEntity, world)
              IN  IF agent.lastState # None /\ agent.lastAction # None
                    THEN LET reward == _calculateReward(agent.lastState,
                                                        currentState, TRUE)
                         IN  /\ tick' = [pc |-> "training",
                                         currentState |-> currentState,
                                         actionId |-> None, health |-> None]
                             /\ calls' = <<RememberCall(agent.lastState,
                                              agent.lastAction, reward,
                                              currentState, FALSE, agent.success),
                                           Call("trainModel")>>
                    ELSE Choose(currentState, << >>)
    /\ UNCHANGED <<world, agent>>
    /\ UNCHANGED <<schedVars, rlVars, qVars, managerVars, args, returned>>

\* await this.qAgent.trainModel() has resolved.
ThinkTrained ==
    /\ tick.pc = "training"
    /\ Choose(tick.currentState, calls)
    /\ UNCHANGED <<world, agent, ticks>>
    /\ UNCHANGED <<schedVars, rlVars, qVars, managerVars, args, returned>>

\* await this._executeBotAction(actionId) has settled.  Resolved: lastState
\* and lastAction are written, the result is dropped, the health is tested.
\* Rejected: _think rejects in its turn, and nothing handles it.
ThinkActed(outcome) ==
    /\ tick.pc = "acting"
    /\ outcome \in Outcomes(tick.actionId[1])
    /\ LET result == _executeBotAction(TRUE, TRUE, tick.actionId[1], outcome)
           executed == Append(calls, [op |-> "_executeBotAction",
                                      outcome |-> outcome, result |-> result])
       IN  IF result.rejected
             THEN /\ calls' = executed
                  /\ tick' = [tick EXCEPT !.pc = "rejected"]
                  /\ agent' = agent
             ELSE
               /\ agent' = [lastState |-> tick.currentState,
                            lastAction |-> tick.actionId,
                            success |-> result.success]
               /\ IF Dead(world.health)
                    THEN /\ calls' = executed \o
                                     <<RememberCall(tick.currentState, tick.actionId,
                                                    - Hundredths(10000),
                                                    tick.currentState, TRUE,
                                                    result.success),
                                       Call("trainModel")>>
                         /\ tick' = [tick EXCEPT !.pc = "dying",
                                                 !.health = Some(world.health)]
                    ELSE /\ calls' = executed
                         /\ tick' = [tick EXCEPT !.pc = "done",
                                                 !.health = Some(world.health)]
    /\ UNCHANGED <<world, ticks>>
    /\ UNCHANGED <<schedVars, rlVars, qVars, managerVars, args, returned>>

\* The training on the terminal transition has resolved: lastDiedTime is
\* written, which _getBotState reports as recentlyDied for ten seconds, and
\* saveModel is called.
ThinkBuried ==
    /\ tick.pc = "dying"
    /\ world' = [world EXCEPT !.recentlyDied = TRUE]
    /\ calls' = Append(calls, Call("saveModel"))
    /\ tick' = [tick EXCEPT !.pc = "saving"]
    /\ UNCHANGED <<agent, ticks>>
    /\ UNCHANGED <<schedVars, rlVars, qVars, managerVars, args, returned>>

\* await this.qAgent.saveModel() has resolved (saveModel logs a failure and
\* resolves all the same): this.disconnect().
ThinkSaved ==
    /\ tick.pc = "saving"
    /\ calls' = Append(calls, Call("disconnect"))
    /\ tick' = [tick EXCEPT !.pc = "done"]
    /\ UNCHANGED <<world, agent, ticks>>
    /\ UNCHANGED <<schedVars, rlVars, qVars, managerVars, args, returned>>

\* The game goes on while the action executes: the bot is hurt or healed,
\* or it gains or loses the pickaxe.
WorldChange ==
    /\ tick.pc = "acting"
    /\ \E w \in ThinkWorlds :
          /\ (w.health # world.health) # (w.items # world.items)
          /\ world' = [world EXCEPT !.health = w.health, !.items = w.items]
    /\ UNCHANGED <<tick, agent, calls, ticks>>
    /\ UNCHANGED <<schedVars, rlVars, qVars, managerVars, args, returned>>

\* The ticks of the agent are not followed.
NoBot ==
    /\ world = None
    /\ tick = None
    /\ agent = None
    /\ calls = None
    /\ ticks = 0

\* An agent that has spawned, before its first tick.
IdleBot ==
    /\ world = BaseWorld
    /\ tick = Idle
    /\ agent = [lastState |-> None, lastAction |-> None, success |-> TRUE]
    /\ calls = << >>
    /\ ticks = 0

\* The calls of CallSpec.
GetBotState ==
    /\ args.fn = "_getBotState"
    /\ returned = None
    /\ returned' = Some(_getBotState(args.mcData, args.entity, args.world))
    /\ UNCHANGED <<schedVars, rlVars, qVars, managerVars, args, world, tick,
                   agent, calls, ticks>>

CalculateReward ==
    /\ args.fn = "_calculateReward"
    /\ returned = None
    /\ returned' = Some(_calculateReward(_getBotState(TRUE, TRUE, args.oldWorld),
                                         _getBotState(TRUE, TRUE, args.newWorld),
                                         args.actionSuccess))
    /\ UNCHANGED <<schedVars, rlVars, qVars, managerVars, args, world, tick,
                   agent, calls, ticks>>

ExecuteBotAction ==
    /\ args.fn = "_executeBotAction"
    /\ returned = None
    /\ returned' = Some(_executeBotAction(args.entity, args.mcData,
                                          args.actionId, args.outcome))
    /\ UNCHANGED <<schedVars, rlVars, qVars, managerVars, args, world, tick,
                   agent, calls, ticks>>

(***************************************************************************)
(* Part V.  BotManager and main of src/bot.js: initializeBots, the         *)
(* signal handlers that main registers once initializeBots has resolved,   *)
(* and disconnectAllBots.                                                  *)
(*                                                                         *)
(* A username is a number: k stands for the k-th name that bots_config.json*)
(* or the generator of initializeBots may hold.  managed is this.bots: for *)
(* each BotAgent its username and the state of its socket.                 *)
(***************************************************************************)
\* Usernames that the file and the generator may hold.
NumNames == 2
\* Entries of bots_config.json when the process starts.
MaxConfigs == 3

desiredBotCount == NumAgents
Usernames == 1 .. NumNames

RECURSIVE Lists(_)
\* The lists of at most n usernames.
Lists(n) ==
    IF n = 0 THEN {<< >>}
    ELSE Lists(n - 1) \cup
         {Append(l, u) : l \in {k \in Lists(n - 1) : Len(k) = n - 1}, u \in Usernames}

Range_empty(s) == {}
\* The set of the entries of a list.
Range(s) == {s[k] : k \in DOMAIN s}

\* new BotAgent(username) followed by connect().
Connected(username) == [username |-> username, socket |-> "open"]

Quit_never(botAgent) == botAgent
\* BotAgent.disconnect: quit() when the socket is open, nothing otherwise.
Quit(botAgent) ==
    IF botAgent.socket = "open" THEN [botAgent EXCEPT !.socket = "closing"]
    ELSE botAgent

Starting == [pc |-> "start", loadedConfigs |-> << >>, existingUsernames |-> {},
             configs |-> << >>, i |-> 1]

\* _loadBotConfigs has resolved: the list of the file, or [] when the file
\* is missing or cannot be read.
LoadBotConfigs(readable) ==
    /\ manager.pc = "start"
    /\ LET loadedConfigs == IF readable THEN configFile ELSE << >>
       IN  manager' = [pc |-> "initializing", loadedConfigs |-> loadedConfigs,
                       existingUsernames |-> Range(loadedConfigs),
                       configs |-> << >>, i |-> 1]
    /\ UNCHANGED <<configFile, managed, journal>>
    /\ UNCHANGED <<schedVars, rlVars, qVars, botVars>>

\* One turn of the first loop of initializeBots: the loaded identity is
\* reconnected while the fleet is short of desiredBotCount; otherwise its
\* weights are saved by a temporary agent that never connects.
Reconnect ==
    /\ manager.pc = "initializing"
    /\ manager.i <= Len(manager.loadedConfigs)
    /\ LET config == manager.loadedConfigs[manager.i]
       IN  IF Len(managed) < desiredBotCount
             THEN /\ managed' = Append(managed, Connected(config))
                  /\ manager' = [manager EXCEPT
                                    !.configs = Append(manager.configs, config),
                                    !.i = manager.i + 1]
             ELSE /\ managed' = managed
                  /\ manager' = [manager EXCEPT !.i = manager.i + 1]
    /\ UNCHANGED <<configFile, journal>>
    /\ UNCHANGED <<schedVars, rlVars, qVars, botVars>>

\* One turn of the second loop: a username is drawn again until it is not
\* in existingUsernames, and an agent of that name is made and connected.
CreateNew(newUsername) ==
    /\ manager.pc = "initializing"
    /\ manager.i > Len(manager.loadedConfigs)
    /\ Len(managed) < desiredBotCount
    /\ newUsername \notin manager.existingUsernames
    /\ managed' = Append(managed, Connected(newUsername))
    /\ manager' = [manager EXCEPT
                      !.existingUsernames = manager.existingUsernames \cup {newUsername},
                      !.configs = Append(manager.configs, newUsername)]
    /\ UNCHANGED <<configFile, journal>>
    /\ UNCHANGED <<schedVars, rlVars, qVars, botVars>>

\* _saveBotConfigs(activeBotConfigs) has resolved, written or failed and
\* logged; initializeBots resolves and main registers the two handlers.
Initialized(written) ==
    /\ manager.pc = "initializing"
    /\ manager.i > Len(manager.loadedConfigs)
    /\ Len(managed) >= desiredBotCount
    /\ configFile' = IF written THEN manager.configs ELSE configFile
    /\ manager' = [manager EXCEPT !.pc = "running"]
    /\ UNCHANGED <<managed, journal>>
    /\ UNCHANGED <<schedVars, rlVars, qVars, botVars>>

\* The server or the network closes the session of a managed agent.
SessionEnds(k) ==
    /\ manager.pc \in {"initializing", "running", "stopping", "saving"}
    /\ k \in DOMAIN managed
    /\ managed[k].socket # "closed"
    /\ managed' = [managed EXCEPT ![k].socket = "closed"]
    /\ UNCHANGED <<configFile, manager, journal>>
    /\ UNCHANGED <<schedVars, rlVars, qVars, botVars>>

\* SIGINT or SIGTERM while main still awaits initializeBots: no handler is
\* registered and the process ends at once.
EarlySignal ==
    /\ manager.pc \in {"start", "initializing"}
    /\ manager' = [manager EXCEPT !.pc = "exited"]
    /\ journal' = Append(journal, [op |-> "exit"])
    /\ UNCHANGED <<configFile, managed>>
    /\ UNCHANGED <<schedVars, rlVars, qVars, botVars>>

\* SIGINT or SIGTERM once the handlers are registered: disconnectAllBots
\* starts.
Signal ==
    /\ manager.pc = "running"
    /\ manager' = [manager EXCEPT !.pc = "stopping", !.configs = << >>, !.i = 1]
    /\ journal' = Append(journal, [op |-> "signal"])
    /\ UNCHANGED <<configFile, managed>>
    /\ UNCHANGED <<schedVars, rlVars, qVars, botVars>>

\* One turn of the loop of disconnectAllBots up to its await: disconnect()
\* and the call of saveModel.
DisconnectNext ==
    /\ manager.pc = "stopping"
    /\ manager.i <= Len(managed)
    /\ managed' = [managed EXCEPT ![manager.i] = Quit(managed[manager.i])]
    /\ manager' = [manager EXCEPT !.pc = "saving"]
    /\ journal' = Append(journal, [op |-> "disconnect", agent |-> manager.i])
    /\ UNCHANGED configFile
    /\ UNCHANGED <<schedVars, rlVars, qVars, botVars>>

\* await botAgent.qAgent.saveModel() has resolved, saved or failed and
\* logged; the username joins currentActiveConfigs.
ModelSaved(written) ==
    /\ manager.pc = "saving"
    /\ manager' = [manager EXCEPT
                      !.pc = "stopping",
                      !.configs = Append(manager.configs,
                                         managed[manager.i].username),
                      !.i = manager.i + 1]
    /\ journal' = Append(journal, [op |-> "saveModel", agent |-> manager.i,
                                   written |-> written])
    /\ UNCHANGED <<configFile, managed>>
    /\ UNCHANGED <<schedVars, rlVars, qVars, botVars>>

\* await this._saveBotConfigs(currentActiveConfigs) has resolved, written
\* or failed and logged, and the handler calls process.exit(0).
ExitAfter(list, written) ==
    <<[op |-> "_saveBotConfigs", configs |-> list, written |-> written],
      [op |-> "exit"]>>

ConfigsSaved(written) ==
    /\ manager.pc = "stopping"
    /\ manager.i > Len(managed)
    /\ configFile' = IF written THEN manager.configs ELSE configFile
    /\ manager' = [manager EXCEPT !.pc = "exited"]
    /\ journal' = journal \o ExitAfter(manager.configs, written)
    /\ UNCHANGED managed
    /\ UNCHANGED <<schedVars, rlVars, qVars, botVars>>

\* Restarts of the process that are followed.
MaxRestarts == 1

\* The usernames of this.bots, in order.
UsernamesOf(botAgents) == [k \in DOMAIN botAgents |-> botAgents[k].username]

\* The process is ended without its handlers running and main starts
\* again with the same DEFAULT_BOT_COUNT: a new BotManager with no bots,
\* bots_config.json as the previous run left it.  The journal keeps the
\* fleet of the run that ended and the file it left.
Restart ==
    /\ manager.pc = "running"
    /\ Len(journal) < MaxRestarts
    /\ manager' = Starting
    /\ managed' = << >>
    /\ journal' = Append(journal, [op |-> "restart",
                                   usernames |-> UsernamesOf(managed),
                                   file |-> configFile])
    /\ UNCHANGED configFile
    /\ UNCHANGED <<schedVars, rlVars, qVars, botVars>>

\* The BotManager is not followed.
NoManager ==
    /\ configFile = None
    /\ managed = None
    /\ manager = None
    /\ journal = None

(***************************************************************************)
(* Part VI.  The episodes of one BotAgent: its spawns, the runs of _think  *)
(* that its interval starts, which may overlap, its deaths and the end of  *)
(* its session.                                                            *)
(*                                                                         *)
(* Here tick is the set of the runs of _think that have not returned, each *)
(* with its locals; agent holds the fields of the BotAgent and the state   *)
(* of its session; calls is the set of the calls the runs have made.       *)
(* An observation is kept with the run that made it and the number of      *)
(* spawn events before it, an action with the run that chose it: this.     *)
(* lastState and this.lastAction hold only the array and the number.       *)
(*                                                                         *)
(* trainModel is taken to resolve, so no run of _think starts while        *)
(* another one awaits it (model.fit admits one call at a time).            *)
(***************************************************************************)
\* Spawn events of one session and runs of _think that are followed.
MaxSpawns == 2
MaxRuns == 2

\* clearInterval(handle) on the set of the armed intervals.
clearInterval_keeps(intervals, handle) == intervals

clearInterval(intervals, handle) ==
    IF handle = None THEN intervals ELSE intervals \ {handle[1]}

\* const currentState = this._getBotState(), made by run id.
Observe(id) ==
    [by |-> id, episode |-> agent.spawns,
     state |-> _getBotState(TRUE, TRUE, world)]

\* What chooseAction(currentState) returned to run id.
Chosen(id, actionId) == [by |-> id, actionId |-> actionId]

\* this.qAgent.remember(state, action, reward, nextState, done), kept with
\* the run that called it and the place of the call in _think.
Remembered(id, branch, state, action, reward, nextState, done) ==
    [op |-> "remember", by |-> id, branch |-> branch, state |-> state,
     action |-> action, reward |-> reward, nextState |-> nextState,
     done |-> done]

\* The remember call of the previous experience (let done = false).
Previous(id, botAgent, currentState) ==
    Remembered(id, "previous", botAgent.lastState[1], botAgent.lastAction[1],
               _calculateReward(botAgent.lastState[1].state,
                                currentState.state, TRUE),
               currentState, FALSE)

Terminal_notDone(id, botAgent, currentState) ==
    Remembered(id, "death", botAgent.lastState[1], botAgent.lastAction[1],
               - Hundredths(10000), currentState, FALSE)

\* The remember call of the death branch.
Terminal(id, botAgent, currentState) ==
    Remembered(id, "death", botAgent.lastState[1], botAgent.lastAction[1],
               - Hundredths(10000), currentState, TRUE)

Update_stateOnly(botAgent, run) ==
    [botAgent EXCEPT !.lastState = Some(run.currentState)]

\* this.lastState = currentState; this.lastAction = actionId;
Update(botAgent, run) ==
    [botAgent EXCEPT !.lastState = Some(run.currentState),
                     !.lastAction = Some(run.action[1])]

\* A run of _think at an await.
Run(id, pc, currentState, action) ==
    [id |-> id, pc |-> pc, currentState |-> currentState, action |-> action]

Fitting == \E run \in tick : run.pc \in {"training", "dying"}

\* chooseAction and the call of _executeBotAction, where the run suspends.
\* Which action is chosen has no part in what follows; successive runs are
\* given different ones, so that the action of one run is told from that
\* of another.
Acting(id, currentState) ==
    Run(id, "acting", currentState, Some(Chosen(id, id % outputDim)))

\* BotAgent._onSpawn, on the first spawn and on each respawn packet (after
\* a death, on entering another dimension).
EpisodeSpawn ==
    /\ agent.session \in {"connecting", "spawned"}
    /\ agent.spawns < MaxSpawns
    /\ agent' = [agent EXCEPT
                    !.session = "spawned",
                    !.spawns = agent.spawns + 1,
                    !.lastState = None,
                    !.lastAction = None,
                    !.intervals = clearInterval(agent.intervals, agent.thinkInterval)
                                      \cup {agent.spawns + 1},
                    !.thinkInterval = Some(agent.spawns + 1)]
    /\ world' = [world EXCEPT !.health = FullHealth]
    /\ UNCHANGED <<tick, calls, ticks>>
    /\ UNCHANGED <<schedVars, rlVars, qVars, managerVars, args, returned>>

\* An armed interval calls _think, which runs up to its first await.
EpisodeThink ==
    /\ agent.intervals # {}
    /\ ticks < MaxRuns
    /\ Cardinality(tick) < MaxInFlight
    /\ ~Fitting
    /\ ticks' = ticks + 1
    /\ LET id == ticks + 1
           currentState == Observe(id)
       IN  IF agent.lastState # None /\ agent.lastAction # None
             THEN /\ calls' = calls \cup {Previous(id, agent, currentState)}
                  /\ tick' = tick \cup {Run(id, "training", currentState, None)}
             ELSE /\ calls' = calls
                  /\ tick' = tick \cup {Acting(id, currentState)}
    /\ UNCHANGED <<world, agent>>
    /\ UNCHANGED <<schedVars, rlVars, qVars, managerVars, args, returned>>

\* await this.qAgent.trainModel() has resolved.
EpisodeTrained(run) ==
    /\ run \in tick
    /\ run.pc = "training"
    /\ tick' = (tick \ {run}) \cup {Acting(run.id, run.currentState)}
    /\ UNCHANGED <<world, agent, calls, ticks>>
    /\ UNCHANGED <<schedVars, rlVars, qVars, managerVars, args, returned>>

\* await this._executeBotAction(actionId) has resolved (it never rejects):
\* lastState and lastAction are written, the health is tested and, in the
\* death branch, the terminal transition is stored and trained on.
EpisodeActed(run) ==
    /\ run \in tick
    /\ run.pc = "acting"
    /\ agent' = Update(agent, run)
    /\ IF Dead(world.health)
         THEN /\ calls' = calls \cup {Terminal(run.id, agent', run.currentState)}
              /\ tick' = (tick \ {run}) \cup {[run EXCEPT !.pc = "dying"]}
         ELSE /\ calls' = calls
              /\ tick' = tick \ {run}
    /\ UNCHANGED <<world, ticks>>
    /\ UNCHANGED <<schedVars, rlVars, qVars, managerVars, args, returned>>

\* The training on the terminal transition has resolved: lastDiedTime is
\* written and saveModel is called.
EpisodeBuried(run) ==
    /\ run \in tick
    /\ run.pc = "dying"
    /\ world' = [world EXCEPT !.recentlyDied = TRUE]
    /\ calls' = calls \cup {[op |-> "saveModel", by |-> run.id]}
    /\ tick' = (tick \ {run}) \cup {[run EXCEPT !.pc = "saving"]}
    /\ UNCHANGED <<agent, ticks>>
    /\ UNCHANGED <<schedVars, rlVars, qVars, managerVars, args, returned>>

\* await this.qAgent.saveModel() has resolved: this.disconnect(), which
\* quits if the socket is open, and the run returns.
EpisodeSaved(run) ==
    /\ run \in tick
    /\ run.pc = "saving"
    /\ calls' = calls \cup {[op |-> "disconnect", by |-> run.id]}
    /\ agent' = [agent EXCEPT !.session =
                    IF agent.session = "spawned" THEN "quitting" ELSE @]
    /\ tick' = tick \ {run}
    /\ UNCHANGED <<world, ticks>>
    /\ UNCHANGED <<schedVars, rlVars, qVars, managerVars, args, returned>>

\* The game: the bot dies.
EpisodeDeath ==
    /\ agent.session = "spawned"
    /\ ~Dead(world.health)
    /\ world' = [world EXCEPT !.health = 0]
    /\ UNCHANGED <<tick, agent, calls, ticks>>
    /\ UNCHANGED <<schedVars, rlVars, qVars, managerVars, args, returned>>

\* BotAgent._onChat on a warning of a hostile mob: _executeBotAction runs
\* outside any run of _think.  It acts on the game (it flees or attacks,
\* which leaves the health and the death flag of this world as they are)
\* and writes no field of the BotAgent.
EpisodeChat ==
    /\ agent.session = "spawned"
    /\ \E actionId \in ActionIds :
          ~_executeBotAction(TRUE, TRUE, actionId, "done").rejected
    /\ UNCHANGED <<world, tick, agent, calls, ticks>>
    /\ UNCHANGED <<schedVars, rlVars, qVars, managerVars, args, returned>>

\* BotAgent._onEnd: the interval is cleared (and the weights are saved).
\* The runs of _think that are suspended still resume afterwards.
EpisodeEnd ==
    /\ agent.session # "ended"
    /\ agent' = [agent EXCEPT
                    !.session = "ended",
                    !.intervals = clearInterval(agent.intervals, agent.thinkInterval)]
    /\ UNCHANGED <<world, tick, calls, ticks>>
    /\ UNCHANGED <<schedVars, rlVars, qVars, managerVars, args, returned>>

\* A BotAgent after connect(), before its first spawn.
ConnectingBot ==
    /\ world = BaseWorld
    /\ tick = {}
    /\ agent = [session |-> "connecting", spawns |-> 0, lastState |-> None,
                lastAction |-> None, thinkInterval |-> None, intervals |-> {}]
    /\ calls = {}
    /\ ticks = 0

Init ==
    /\ InitSched /\ InitRL /\ QAgent(DefaultParams, None)
    /\ NoCall /\ NoBot /\ NoManager

Next ==
    \/ \E t \in Pending : ScheduleTimerFire(t)
    \/ \E t \in Pending : LifetimeTimerFire(t)
    \/ \E t \in Pending : CooldownTimerFire(t)
    \/ \E i \in Slots : \E b \in BotsOf(i) : SpawnEvent(i, b)
    \/ \E i \in Slots : \E b \in BotsOf(i) : EndEvent(i, b)
    \/ \E i \in Slots : \E b \in BotsOf(i) : \E err \in ErrorKinds, fatal \in BOOLEAN :
          ErrorEvent(i, b, err, fatal)

Spec == Init /\ [][Next]_vars

(***************************************************************************)
(* Part II.  The RL fleet: the life cycle of each BotAgent.                *)
(***************************************************************************)
\* FleetSpec runs the fleet that BotManager.initializeBots has created and
\* connected; the scheduler scripts are other programs and stand still.
NextFleet ==
    \/ \E a \in Agents : OnSpawn(a)
    \/ \E a \in Agents : ThinkTick(a)
    \/ \E a \in Agents : ThinkResume(a)
    \/ \E a \in Agents : Hurt(a)
    \/ \E a \in Agents : \E fatal \in BOOLEAN : OnError(a, fatal)
    \/ \E a \in Agents : OnEnd(a)

\* The event loop runs every callback that is ready: a due tick, a resolved
\* await, and the 'end' event of a socket that is closed.  Nothing obliges the
\* server to hurt a bot, to fail or to end a session.
FleetFairness ==
    \A a \in Agents :
        /\ WF_vars(ThinkTick(a))
        /\ WF_vars(ThinkResume(a))
        /\ WF_vars(session[a] \in {"quitting", "failed"} /\ OnEnd(a))

FleetSpec == Init /\ [][NextFleet]_vars /\ FleetFairness

(***************************************************************************)
(* The specifications of Part III: one QAgent and the calls its BotAgent   *)
(* makes on it.  The scheduler and the sessions stand still.               *)
(***************************************************************************)
\* The agent as the constructor leaves it, for each content of its
\* directory.
InitQAgent(P) ==
    /\ InitSched /\ variant = 1
    /\ InitRL
    /\ \E p \in P, disk \in {None, Some(Prior)} : QAgent(p, disk)
    /\ NoCall /\ NoBot /\ NoManager

\* ReplaySpec: experience and training of an agent of the fleet.
NextReplay ==
    \/ \E outcome \in LoadOutcomes : LoadModelResume(outcome)
    \/ \E done \in BOOLEAN : Remember(done)
    \/ TrainModel
    \/ TrainModelResume

ReplaySpec == InitQAgent({DefaultParams}) /\ [][NextReplay]_vars

\* ExploreSpec: the exploration rate through restore, training and the
\* choices of _think.
NextExplore ==
    \/ \E outcome \in LoadOutcomes : LoadModelResume(outcome)
    \/ Remember(FALSE)
    \/ TrainModel
    \/ TrainModelResume
    \/ \E choice \in Choices : Decide(choice)

ExploreSpec == InitQAgent({DefaultParams, QuickParams}) /\ [][NextExplore]_vars

\* PersistSpec: an agent that is restored, saved and asked for actions, and
\* never trained.
NextPersist ==
    \/ \E outcome \in LoadOutcomes : LoadModelResume(outcome)
    \/ \E ok \in BOOLEAN : SaveModel(ok)
    \/ \E state \in Observations, r \in RandomDraws, pick \in ActionIds :
          ChooseAction(state, r, pick)

PersistSpec == InitQAgent(Params) /\ [][NextPersist]_vars

(***************************************************************************)
(* The specifications of Parts IV and V.  The scheduler, the sessions of   *)
(* Part II and the QAgent stand still.                                     *)
(***************************************************************************)
InitStill ==
    /\ InitSched /\ variant = 1
    /\ InitRL
    /\ QAgent(DefaultParams, None)

InitCall ==
    /\ InitStill /\ NoBot /\ NoManager
    /\ args \in ObserveArgs \cup RewardArgs \cup ExecuteArgs
    /\ returned = None

NextCall ==
    \/ GetBotState
    \/ CalculateReward
    \/ ExecuteBotAction

CallSpec == InitCall /\ [][NextCall]_vars

NextThink ==
    \/ \E hasMcData \in BOOLEAN, hasEntity \in BOOLEAN : ThinkBegin(hasMcData, hasEntity)
    \/ ThinkTrained
    \/ \E outcome \in {"done", "unmet", "caught", "thrown"} : ThinkActed(outcome)
    \/ ThinkBuried
    \/ ThinkSaved
    \/ WorldChange

InitThink == InitStill /\ NoCall /\ IdleBot /\ NoManager

ThinkSpec == InitThink /\ [][NextThink]_vars

InitManager ==
    /\ InitStill /\ NoCall /\ NoBot
    /\ configFile \in Lists(MaxConfigs)
    /\ managed = << >>
    /\ manager = Starting
    /\ journal = << >>

NextManager ==
    \/ \E readable \in BOOLEAN : LoadBotConfigs(readable)
    \/ Reconnect
    \/ \E newUsername \in Usernames : CreateNew(newUsername)
    \/ \E written \in BOOLEAN : Initialized(written)
    \/ \E k \in 1 .. desiredBotCount : SessionEnds(k)
    \/ EarlySignal
    \/ Signal
    \/ DisconnectNext
    \/ \E written \in BOOLEAN : ModelSaved(written)
    \/ \E written \in BOOLEAN : ConfigsSaved(written)

\* Every await of initializeBots and of disconnectAllBots resolves: the
\* file operations end, and saveModel and _saveBotConfigs catch what they
\* throw.  Nothing obliges a signal to come or a session to end.
ManagerFairness ==
    /\ WF_vars(DisconnectNext)
    /\ WF_vars(\E written \in BOOLEAN : ModelSaved(written))
    /\ WF_vars(\E written \in BOOLEAN : ConfigsSaved(written))

ManagerSpec == InitManager /\ [][NextManager]_vars /\ ManagerFairness

\* initializeBots alone, over successive runs of the process.
NextRestart ==
    \/ \E readable \in BOOLEAN : LoadBotConfigs(readable)
    \/ Reconnect
    \/ \E newUsername \in Usernames : CreateNew(newUsername)
    \/ \E written \in BOOLEAN : Initialized(written)
    \/ Restart

RestartSpec == InitManager /\ [][NextRestart]_vars

\* One BotAgent from connect() on.
NextEpisode ==
    \/ EpisodeSpawn
    \/ EpisodeThink
    \/ \E run \in tick : EpisodeTrained(run)
    \/ \E run \in tick : EpisodeActed(run)
    \/ \E run \in tick : EpisodeBuried(run)
    \/ \E run \in tick : EpisodeSaved(run)
    \/ EpisodeDeath
    \/ EpisodeChat
    \/ EpisodeEnd

InitEpisode == InitStill /\ NoCall /\ ConnectingBot /\ NoManager

EpisodeSpec == InitEpisode /\ [][NextEpisode]_vars

(***************************************************************************)
(* Claims about the slot scheduler.                                        *)
(***************************************************************************)
Spawned(i) == {b \in BotsOf(i) : bots[i][b] = "spawned"}
PendingFor(i) == {t \in Pending : t.botIndex = i}
BaseMs(i) == (baseInterval + (i % (maxInterval - baseInterval + 1))) * 1000
ConnectionErrorOf(i, b) ==
    \E err \in ErrorKinds : IsConnectionError(err) /\ ErrorEvent(i, b, err, TRUE)

\* C1: in every reachable state at most one spawned, not yet ended bot exists
\* per slot (hence at most maxBots in all).
C1_OneActivePerSlot ==
    \A i \in Slots : Cardinality(Spawned(i)) <= 1

\* C2: no reachable state has an empty slot with no bot connecting for it and
\* no pending timer that leads to a connection attempt for it.
C2_NoStalledSlot ==
    \A i \in Slots :
        activeBots[i] = null =>
            \/ \E b \in BotsOf(i) : bots[i][b] = "connecting"
            \/ PendingFor(i) # {}

\* C4: getIntervalForBot(i) is (base + (i mod (max - base + 1)) + delay[i])
\* seconds in milliseconds, within [base, max] + delay[i] seconds; every timer
\* scheduleNextBot has armed carries such a value for a delay accumulated up to
\* then, so with no accumulated delay it lies within [base, max] seconds.
C4_IntervalLaw ==
    /\ \A i \in Slots :
          /\ getIntervalForBot(i) = BaseMs(i) + scheduleDelays[i] * 1000
          /\ getIntervalForBot(i) >= (baseInterval + scheduleDelays[i]) * 1000
          /\ getIntervalForBot(i) <= (maxInterval + scheduleDelays[i]) * 1000
    /\ \A t \in Pending :
          t.kind = "schedule" =>
              /\ \E k \in 0 .. failures :
                    t.ms = BaseMs(t.botIndex) + k * PenaltyUnit * 1000
              /\ failures = 0 => /\ t.ms >= baseInterval * 1000
                                 /\ t.ms <= maxInterval * 1000

C4_Witness ==
    \E t \in Pending :
        /\ t.kind = "schedule"
        /\ t.botIndex = maxBots - 1
        /\ scheduleDelays[t.botIndex] > 0
        /\ t.ms = getIntervalForBot(t.botIndex)

\* C5: after k calls of delayAllSchedulesOneMinute, every slot's computed
\* interval is exactly k penalty units above its value before any failure.
C5_PenaltyPerFailure ==
    \A i \in Slots :
        getIntervalForBot(i) = BaseMs(i) + failures * PenaltyUnit * 1000

\* Two failures, reported for bots of two different slots.
C5_Witness ==
    /\ failures >= 2
    /\ \A i \in Slots : \E t \in PendingFor(i) : t.kind = "cooldown"

\* C6: the handler of a connection error of a bot of slot i adds the penalty to
\* every slot's delay and arms one 60 s cooldown timer for slot i, and nothing
\* else: no other timer is armed, cancelled or changed, no bot is made, no slot
\* is touched; each slot's computed interval grows by the penalty.  The
\* cooldown callback then arms exactly one timer, for slot i, of the interval
\* computed for slot i then.
C6_ErrorReschedulesOnlyItsSlot ==
    [][ /\ \A i \in Slots : \A b \in BotsOf(i) :
              ConnectionErrorOf(i, b) =>
                  /\ scheduleDelays' =
                        [j \in Slots |-> scheduleDelays[j] + PenaltyUnit]
                  /\ timers' = timers
                        (+) SetToBag({Timer("cooldown", i, null, 60000)})
                  /\ \A j \in Slots :
                        getIntervalForBot(j)' =
                            getIntervalForBot(j) + PenaltyUnit * 1000
                  /\ activeBots' = activeBots
                  /\ \A j \in Slots : Len(bots'[j]) = Len(bots[j])
        /\ \A t \in Pending :
              CooldownTimerFire(t) =>
                  /\ timers' = (timers (-) SetToBag({t}))
                        (+) SetToBag({Timer("schedule", t.botIndex, null,
                                 BaseMs(t.botIndex)
                                     + scheduleDelays[t.botIndex] * 1000)})
                  /\ scheduleDelays' = scheduleDelays
      ]_vars

\* The error of a slot-1 bot has been handled while slot 0 keeps the timer it
\* was armed with at startup.
C6_Witness ==
    /\ failures >= 1
    /\ \E t \in PendingFor(1) : t.kind = "cooldown"
    /\ \E b \in BotsOf(1) : bots[1][b] = "failed"
    /\ \E t \in PendingFor(0) : t.kind = "schedule" /\ t.ms = BaseMs(0)
    /\ getIntervalForBot(0) > BaseMs(0)

C8_ScheduledFire ==
    [][ \A t \in Pending :
            ScheduleTimerFire(t) =>
                /\ timers' = timers (-) SetToBag({t})
                /\ activeBots' = activeBots
                /\ scheduleDelays' = scheduleDelays
                /\ \A j \in Slots \ {t.botIndex} : bots'[j] = bots[j]
                /\ IF activeBots[t.botIndex] = null
                      THEN bots'[t.botIndex] =
                               Append(bots[t.botIndex], "connecting")
                      ELSE bots'[t.botIndex] = bots[t.botIndex]
      ]_vars

\* A callback has found its slot occupied, and another has created a bot.
C8_Witness ==
    /\ skippedFire
    /\ \E i \in Slots : \E b \in BotsOf(i) : bots[i][b] = "connecting"

\* C9: the lifetime callback of a spawned bot closes its session, clears its
\* slot and arms exactly one timer, of getIntervalForBot(slot) for the delay
\* accumulated by then; a slot gets an occupant only by the spawn event of a
\* bot created for it.
C9_LifetimeExpiry ==
    [][ /\ \A t \in Pending :
              (LifetimeTimerFire(t) /\ bots[t.botIndex][t.bot] = "spawned") =>
                  /\ bots'[t.botIndex][t.bot] = "quitting"
                  /\ activeBots'[t.botIndex] = null
                  /\ scheduleDelays' = scheduleDelays
                  /\ timers' = (timers (-) SetToBag({t}))
                        (+) SetToBag({Timer("schedule", t.botIndex, null,
                                 BaseMs(t.botIndex)
                                     + scheduleDelays[t.botIndex] * 1000)})
        /\ \A i \in Slots :
              (activeBots'[i] # activeBots[i] /\ activeBots'[i] # null) =>
                  /\ activeBots'[i] \in BotsOf(i)
                  /\ SpawnEvent(i, activeBots'[i])
      ]_vars

\* A bot has just expired after a failure: its slot is empty and scheduled with
\* the delayed interval.
C9_Witness ==
    \E i \in Slots : \E b \in BotsOf(i) :
        /\ bots[i][b] = "quitting"
        /\ activeBots[i] = null
        /\ scheduleDelays[i] > 0
        /\ \E t \in PendingFor(i) :
              t.kind = "schedule" /\ t.ms = getIntervalForBot(i)

\* C10: no step lowers a slot's accumulated delay; a step that changes the
\* delays is the handling of a connection error and adds the penalty to each.
C10_DelayOnlyGrows ==
    [][ /\ \A i \in Slots : scheduleDelays'[i] >= scheduleDelays[i]
        /\ scheduleDelays' # scheduleDelays =>
              /\ \E i \in Slots : \E b \in BotsOf(i) : ConnectionErrorOf(i, b)
              /\ \A i \in Slots :
                    scheduleDelays'[i] = scheduleDelays[i] + PenaltyUnit
      ]_vars

\* After two failures a bot has spawned, another has expired, another ended,
\* and the delays stand.
C10_Witness ==
    /\ failures >= 2
    /\ \A i \in Slots : scheduleDelays[i] = 2 * PenaltyUnit
    /\ \E i \in Slots : Spawned(i) # {}
    /\ \E i \in Slots : \E b \in BotsOf(i) : bots[i][b] = "ended"
    /\ skippedFire

(***************************************************************************)
(* Claims about the RL fleet.                                              *)
(***************************************************************************)
\* C3: every agent whose session has ended is eventually connecting or
\* connected again.
C3_EndedAgentReconnects ==
    \A a \in Agents :
        (session[a] = "ended") ~> (session[a] \in {"connecting", "spawned"})

(***************************************************************************)
(* The QAgent claims.                                                      *)
(***************************************************************************)
\* The remember calls whose transition the buffer holds.
Stored == {replayBuffer[i].id : i \in 1 .. Len(replayBuffer)}

C12_BufferLength ==
    /\ [](Len(replayBuffer) =
            IF pushes < replayBufferSize THEN pushes ELSE replayBufferSize)
    /\ [][pushes' # pushes => Cardinality(Stored \ Stored') <= 1]_vars

\* The buffer is full and a remember call has evicted a transition.
C12_Witness ==
    /\ pushes > replayBufferSize
    /\ Len(replayBuffer) = replayBufferSize


\* C13: a trainModel call made while the buffer holds fewer than batchSize
\* transitions changes nothing and raises nothing, and no other call returns
\* early; so no optimization step is made before the batchSize-th transition
\* is stored, and a step raises the update counter by one and starts one fit.
C13_TooFewIsNoOp ==
    /\ [](\A n \in skippedAt : n < batchSize)
    /\ [](updateCount > 0 => pushes >= batchSize)
    /\ [][skippedAt' # skippedAt =>
             UNCHANGED <<replayBuffer, updateCount, targetModel, model, epsilon,
                         fitting, unhandled>>]_vars
    /\ [][updateCount' # updateCount =>
             /\ Len(replayBuffer) >= batchSize
             /\ updateCount' = updateCount + 1
             /\ fitting = None /\ fitting' # None]_vars

\* trainModel returned early after the (batchSize - 1)-th transition and
\* made its first step right after the batchSize-th.
C13_Witness ==
    /\ (batchSize - 1) \in skippedAt
    /\ pushes = batchSize
    /\ updateCount = 1

\* C14: while a fit is in progress (the buffer and both networks are as
\* trainModel left them), the target row of each transition of the batch
\* holds, at the action taken, the reward if the transition is terminal and
\* otherwise the reward plus discountFactor times the largest output of the
\* target network for the next state; at every other action it holds the
\* live network's prediction for the state.  Rows are in hundredths.
C14_BellmanTargets ==
    fitting # None =>
        \A i \in 1 .. batchSize :
            LET t == replayBuffer[i]
                row == fitting[1][i]
                nextQ == predict(targetModel, t.nextState)
                best == CHOOSE a \in ActionIds : \A b \in ActionIds : nextQ[b] <= nextQ[a]
            IN  \A a \in ActionIds :
                    row[a] = IF a # t.action THEN 100 * predict(model, t.state)[a]
                             ELSE IF t.done THEN 100 * t.reward
                             ELSE 100 * t.reward + discountFactor * nextQ[best]

\* A fit is in progress on a batch with a terminal and a non-terminal
\* transition, the two networks differing in what they predict for the
\* next state of the latter.
C14_Witness ==
    /\ fitting # None
    /\ \E i, j \in 1 .. batchSize :
          /\ replayBuffer[i].done
          /\ ~replayBuffer[j].done
          /\ max(predict(targetModel, replayBuffer[j].nextState))
                # max(predict(model, replayBuffer[j].nextState))

AntiStallReset ==
    /\ consecutiveIdleActions >= IdleLimit
    /\ consecutiveIdleActions' = 0
    /\ epsilon < BoostBelow
    /\ epsilon' = BoostEpsilon

\* C17: every training call that runs leaves epsilon at the larger of
\* minEpsilon and epsilon times epsilonDecay; no step other than an
\* anti-stall reset raises epsilon; and epsilon is never below minEpsilon.
C17_EpsilonDecays ==
    /\ [](epsilon >= params.minEpsilon)
    /\ [][(fitting # None /\ fitting' = None) =>
             LET decayed == (epsilon * params.epsilonDecay) \div 10000
             IN  epsilon' = IF decayed > params.minEpsilon
                               THEN decayed ELSE params.minEpsilon]_vars
    /\ [][epsilon' > epsilon => AntiStallReset]_vars

\* Two training calls, and nothing else, have lowered epsilon from its
\* initial value.
C17_Witness ==
    /\ loadState # "loaded"
    /\ updateCount >= 2
    /\ fitting = None
    /\ params.minEpsilon < epsilon
    /\ epsilon < params.epsilon

\* C18: in every reachable state epsilon lies between the configured
\* minEpsilon and the configured initial epsilon, for every set of
\* hyperparameters, also after an anti-stall reset and after a restore.
C18_EpsilonInRange ==
    /\ params.minEpsilon <= epsilon
    /\ epsilon <= params.epsilon

\* C19: chooseAction answers an action id in 0 .. outputDim - 1; when
\* epsilon is 0 it does not take the random branch and answers the first
\* index at which the live network's output for the state is largest, which
\* the state and the weights determine; when epsilon is 1 it takes the
\* random branch.
C19_ChooseAction ==
    [][chosen' # chosen =>
          LET c == chosen'[1]
              q == predict(model, c.state)
          IN  /\ c.action \in ActionIds
              /\ epsilon = 0 =>
                    /\ ~c.random
                    /\ \A a \in ActionIds : q[a] <= q[c.action]
                    /\ \A a \in ActionIds : a < c.action => q[a] < q[c.action]
              /\ epsilon = 1000 => c.random
      ]_vars

\* With epsilon 0 chooseAction has answered for a state at which the largest
\* output is found at two actions.
C19_Witness ==
    /\ chosen # None
    /\ epsilon = 0
    /\ ~chosen[1].random
    /\ LET q == predict(model, chosen[1].state)
       IN  \E a \in ActionIds : a # chosen[1].action /\ q[a] = q[chosen[1].action]

\* C20: a restore that succeeds puts the loaded weights in both networks and
\* sets epsilon to minEpsilon; a restore that fails, the directory missing
\* or an I/O error, leaves the agent with the weights it was built with and
\* its initial epsilon; and no exception escapes the restore or saveModel.
C20_RestoreAndSave ==
    /\ [](~unhandled)
    /\ [][(loadState = "pending" /\ loadState' = "loaded") =>
             /\ saved # None
             /\ model' = saved[1]
             /\ targetModel' = saved[1]
             /\ epsilon' = params.minEpsilon]_vars
    /\ [][(loadState = "pending" /\ loadState' \in {"ENOENT", "EIO"}) =>
             /\ model' = Built
             /\ targetModel' = Built
             /\ epsilon' = params.epsilon]_vars

\* A restore has failed on an I/O error although the directory holds saved
\* weights; the agent goes on as it was built.
C20_Witness ==
    /\ loadState = "EIO"
    /\ saved = Some(Prior)
    /\ model = Built
    /\ targetModel = Built
    /\ epsilon = params.epsilon
    /\ ~unhandled

(***************************************************************************)
(* The claims on the observation, the reward and the tick.                 *)
(***************************************************************************)
\* The vector that a call of _getBotState has returned, or None.
Observed ==
    IF args # None /\ args.fn = "_getBotState" /\ returned # None
      THEN returned[1] ELSE None

\* C21: every observation vector that _getBotState returns, on the default
\* paths and on the normal path alike, has exactly INPUT_NODES components.
C21_ObservationLength ==
    Observed # None => Len(Observed) = INPUT_NODES

\* C22: every component of an observation, taken as a number, lies within
\* [0, 1], for every report of the game client, inventory counts above one
\* stack and players at any distance included.
C22_ComponentsNormalised ==
    Observed # None =>
        \A k \in DOMAIN Observed : ToNumber(Observed[k]) \in 0 .. Unit


\* The reward that a call of _calculateReward has returned, or None.
Rewarded ==
    IF args # None /\ args.fn = "_calculateReward" /\ returned # None
      THEN returned ELSE None

\* The milestone bonus of each pickaxe, in hundredths.
Milestone ==
    [wooden_pickaxe |-> 1000, stone_pickaxe |-> 2000, iron_pickaxe |-> 4000,
     diamond_pickaxe |-> 8000]

\* C30: the milestone bonuses of _calculateReward are read from the
\* components that _getBotState fills with the pickaxe flags: when between
\* two observations only the flag of one pickaxe turns from 0 to 1 and the
\* action succeeded, the reward is the survival bonus plus the bonus of
\* that pickaxe (10, 20, 40, 80 from wood to diamond).
C30_MilestoneBonus ==
    Rewarded # None =>
        \A p \in Pickaxes :
            ( /\ p \notin args.oldWorld.items
              /\ args.newWorld = [args.oldWorld EXCEPT !.items = @ \cup {p}]
              /\ args.actionSuccess )
            => Rewarded[1] = Hundredths(1) + Hundredths(Milestone[p])


(***************************************************************************)
(* The claims on the fleet: names, timers, ticks in flight, shutdown.      *)
(***************************************************************************)
\* C23: no two agents of the fleet that are connected at the same time
\* have the same username, whatever list of identities initializeBots has
\* loaded.
C23_DistinctNames ==
    \A i \in DOMAIN managed, j \in DOMAIN managed :
        ( /\ i # j
          /\ managed[i].socket = "open"
          /\ managed[j].socket = "open" )
        => managed[i].username # managed[j].username


\* Position in the journal of the first entry of the given kind for the
\* given agent, or 0.
Entry(op, a) ==
    LET at == {k \in DOMAIN journal : journal[k].op = op /\ journal[k].agent = a}
    IN  IF at = {} THEN 0 ELSE CHOOSE k \in at : \A l \in at : k <= l
Exited == journal # << >> /\ journal[Len(journal)].op = "exit"

Handled == journal # << >> /\ journal[1].op = "signal"

InTurn(k) ==
    LET n == Len(managed)
        e == journal[k]
    IN  IF k = 1 THEN e.op = "signal"
        ELSE IF k <= 2 * n + 1
          THEN IF k % 2 = 0
                 THEN e.op = "disconnect" /\ e.agent = k \div 2
                 ELSE e.op = "saveModel" /\ e.agent = (k - 1) \div 2
        ELSE IF k = 2 * n + 2
          THEN /\ e.op = "_saveBotConfigs"
               /\ e.configs = [a \in DOMAIN managed |-> managed[a].username]
        ELSE k = 2 * n + 3 /\ e.op = "exit"

C24_DisconnectedHasNoTimer ==
    \A a \in Agents :
        session[a] \in {"quitting", "ended"} => ~thinkInterval[a]

\* C25: at most one tick of an agent is in flight at any time.
C25_OneTickInFlight ==
    \A a \in Agents : inFlight[a] <= 1


\* C27: when the action executed on a tick has failed, the reward that the
\* next tick stores for its transition is the reward of _calculateReward
\* for a failed action: lower by the failure penalty than for a success.
C27_FailurePenaltyStored ==
    \A k \in DOMAIN calls :
        (calls[k].op = "remember" /\ ~calls[k].done) =>
            calls[k].reward = _calculateReward(calls[k].state, calls[k].nextState,
                                               calls[k].succeeded)

\* The settled call of _executeBotAction, or None.
Executed ==
    IF args # None /\ args.fn = "_executeBotAction" /\ returned # None
      THEN returned ELSE None

\* C28: _executeBotAction never rejects, for any action id, known or not,
\* and any answer of the game client; when an exception leaves a handler
\* it resolves with success = false and the reward -0.7; an unknown id
\* resolves with success = false.
C28_NeverThrows ==
    Executed # None =>
        /\ ~Executed[1].rejected
        /\ (args.entity /\ args.mcData /\ args.outcome = "thrown") =>
              /\ ~Executed[1].success
              /\ Executed[1].actionReward = -70
        /\ args.actionId \in UnknownIds => ~Executed[1].success

C28_Witness ==
    /\ Executed # None
    /\ args.entity /\ args.mcData /\ args.outcome = "thrown"
    /\ Executed[1] = [rejected |-> FALSE, success |-> FALSE, actionReward |-> -70]

\* The calls of the current tick from the terminal remember on.
DeathBranch ==
    LET at == {k \in DOMAIN calls : calls[k].op = "remember" /\ calls[k].done}
    IN  IF at = {} THEN << >>
        ELSE SubSeq(calls, CHOOSE k \in at : \A l \in at : k <= l, Len(calls))
Ops(s) == [k \in DOMAIN s |-> s[k].op]

\* C29: a tick that finds the health of the bot at 0 or below stores a
\* terminal transition of reward -100, trains once on it, has the weights
\* saved, and only then disconnects the agent; a tick that finds the bot
\* alive does none of these.
C29_DeathBranch ==
    /\ tick.health # None =>
          IF tick.health[1] <= 0
            THEN /\ DeathBranch # << >>
                 /\ DeathBranch[1].reward = - Hundredths(10000)
                 /\ DeathBranch[1].nextState = tick.currentState
                 /\ Ops(DeathBranch) =
                      SubSeq(<<"remember", "trainModel", "saveModel", "disconnect">>,
                             1, Len(DeathBranch))
                 /\ tick.pc = "done" => Len(DeathBranch) = 4
            ELSE /\ DeathBranch = << >>
                 /\ \A k \in DOMAIN calls :
                       calls[k].op \notin {"saveModel", "disconnect"}
    /\ tick.health = None => DeathBranch = << >>

C29_Witness ==
    /\ tick.pc = "done"
    /\ tick.health = Some(0)
    /\ Len(calls) > 4
    /\ calls[Len(calls)].op = "disconnect"
    /\ calls[1].op = "remember"

(***************************************************************************)
(* initializeBots                                                          *)
(***************************************************************************)
Min(a, b) == IF a < b THEN a ELSE b

\* initializeBots has resolved in this run.
InitializedNow == manager.pc = "running"

\* The identities of loadedConfigs that this run reuses.
Reused == Min(desiredBotCount, Len(manager.loadedConfigs))

\* The run that ended before this one, as the journal kept it.
PreviousRun == journal[Len(journal)]

\* C31: when initializeBots(n) has resolved, exactly n agents have been made
\* and connected; the first min(n, number of loaded identities) of them bear
\* the loaded identities in stored order and the others bear generated names
\* that differ from every loaded name and from one another; a successful
\* _saveBotConfigs leaves exactly the usernames of these n agents in the file,
\* and a run that starts with that file and reads it has the same identities;
\* a file that cannot be read is loaded as the empty list.
C31_InitializeBots ==
    /\ [](InitializedNow =>
            /\ Len(managed) = desiredBotCount
            /\ \A k \in 1 .. Reused :
                   managed[k].username = manager.loadedConfigs[k]
            /\ \A k \in Reused + 1 .. desiredBotCount :
                   /\ \A j \in DOMAIN manager.loadedConfigs :
                          manager.loadedConfigs[j] # managed[k].username
                   /\ \A l \in Reused + 1 .. desiredBotCount :
                          managed[l].username = managed[k].username => l = k
            /\ manager.configs = UsernamesOf(managed)
            /\ (/\ journal # << >>
                /\ PreviousRun.file = PreviousRun.usernames
                /\ manager.loadedConfigs = PreviousRun.file)
                   => UsernamesOf(managed) = PreviousRun.usernames)
    /\ [][/\ Initialized(TRUE) => configFile' = UsernamesOf(managed')
          /\ LoadBotConfigs(FALSE) => manager'.loadedConfigs = << >>
         ]_vars

\* A restarted run has resolved initializeBots from the file its predecessor
\* left, which lists the predecessor's two distinct identities.
C31_Witness ==
    /\ InitializedNow
    /\ journal # << >>
    /\ PreviousRun.file = PreviousRun.usernames
    /\ manager.loadedConfigs = PreviousRun.file
    /\ UsernamesOf(managed) = PreviousRun.usernames
    /\ PreviousRun.usernames[1] # PreviousRun.usernames[2]

(***************************************************************************)
(* More claims about the slot scheduler.                                   *)
(***************************************************************************)
\* The timers pending for slot i that lead to a connection attempt.
ConnectionTimers(i) ==
    LET counted == [t \in PendingFor(i) |->
                       IF t.kind = "schedule" THEN CopiesIn(t, timers) ELSE 0]
    IN  Total(counted, PendingFor(i))

\* The lifetime timer of bot b of slot i runs in this step.
LifetimeRuns(i, b) ==
    \E t \in Pending :
        /\ t.kind = "lifetime" /\ t.botIndex = i /\ t.bot = b
        /\ CopiesIn(t, timers') < CopiesIn(t, timers)

\* C32: activeBots[i] is cleared only by an event of the bot it refers to (its
\* 'end' event or its own lifetime timer), and the lifetime timer of a bot
\* whose session has ended arms no connection timer for a slot that a later
\* bot occupies.
C32_OnlyOccupantVacates ==
    [][\A i \in Slots :
          /\ (activeBots[i] # null /\ activeBots'[i] = null) =>
                 \/ bots'[i][activeBots[i]] # bots[i][activeBots[i]]
                 \/ LifetimeRuns(i, activeBots[i])
          /\ \A b \in BotsOf(i) :
                 (/\ bots[i][b] = "ended" /\ LifetimeRuns(i, b)
                  /\ activeBots[i] # null) =>
                     ConnectionTimers(i)' <= ConnectionTimers(i)
      ]_vars

\* C33: in every reachable state all slots carry the same accumulated delay,
\* the penalty unit times the number of connection errors handled so far.
C33_CommonDelay ==
    \A i \in Slots :
        /\ \A j \in Slots : scheduleDelays[i] = scheduleDelays[j]
        /\ scheduleDelays[i] = PenaltyUnit * failures

\* Connection errors have been handled up to the bound, for bots of one slot
\* only, and a bot has spawned since.
C33_Witness ==
    /\ failures = MaxFailures
    /\ \E i \in Slots :
          /\ Spawned(i) # {}
          /\ \A j \in Slots \ {i} : bots[j] = << >>
    /\ \A j \in Slots : scheduleDelays[j] = PenaltyUnit * MaxFailures

(***************************************************************************)
(* Claims about the episodes of a BotAgent.                                *)
(***************************************************************************)
\* The transitions stored so far.
Transitions == {e \in calls : e.op = "remember"}

\* C34: in every stored transition the action is the one chosen by the run
\* of _think that observed the state, and lastState and lastAction are both
\* null or both written by one run, whatever runs overlap and whenever
\* _onChat executes an action.
C34_PairFromOneRun ==
    /\ \A e \in Transitions :
          /\ e.action.by = e.state.by
          /\ e.action = Chosen(e.state.by, e.state.by % outputDim)
    /\ (agent.lastState = None) = (agent.lastAction = None)
    /\ agent.lastState # None => agent.lastState[1].by = agent.lastAction[1].by

\* Two runs are suspended at once, and the later one has stored the
\* transition that the earlier one left.
C34_Witness ==
    /\ Cardinality(tick) = 2
    /\ \E e \in Transitions : e.branch = "previous" /\ e.by # e.state.by
    /\ agent.lastState # None

\* C35: no stored transition has its state observed before a spawn event
\* and its nextState after it; so the first run after a spawn, whose
\* observation is the first of its episode, stores none.
C35_NoTransitionAcrossSpawn ==
    \A e \in Transitions : e.state.episode = e.nextState.episode

\* The runs that have gone through each step of the death branch.
Mourners(op) ==
    {e.by : e \in {c \in calls : \/ c.op = op /\ op # "remember"
                                 \/ c.op = op /\ c.branch = "death"}}

\* C36: while the session has not ended, at most one run of _think has stored
\* a terminal transition, at most one has saved the weights after a death and
\* at most one has asked to disconnect.
C36_DeathHandledOnce ==
    agent.session # "ended" =>
        \A op \in {"remember", "saveModel", "disconnect"} :
            Cardinality(Mourners(op)) <= 1

\* C37: a stored transition is terminal exactly if the death branch stored
\* it; then its reward is -100 and its state is its nextState, the
\* observation of the run that stored it.
C37_TerminalIffDeathBranch ==
    \A e \in Transitions :
        /\ e.done = (e.branch = "death")
        /\ e.branch = "death" =>
              /\ e.reward = - Hundredths(10000)
              /\ e.state = e.nextState
              /\ e.state.by = e.by

\* One run has stored the transition of the run before it and then the
\* terminal transition of a death.
C37_Witness ==
    \E e \in Transitions, d \in Transitions :
        /\ e.branch = "previous" /\ d.branch = "death"
        /\ e.by = d.by

\* C39: at most one interval that calls _think is armed at any time, the one
\* this.thinkInterval holds.
C39_OneInterval ==
    /\ Cardinality(agent.intervals) <= 1
    /\ \A handle \in agent.intervals : agent.thinkInterval = Some(handle)

\* A respawn has replaced the interval of the spawn before it.
C39_Witness ==
    /\ agent.spawns >= 2
    /\ agent.intervals = {agent.spawns}


\* How many times the transition t is stored in the buffer.
Copies(buffer, t) == Cardinality({i \in DOMAIN buffer : buffer[i] = t})

\* The two buffers hold the same transitions, each as many times.
SameTransitions(before, after) ==
    /\ Len(before) = Len(after)
    /\ \A i \in DOMAIN before : Copies(before, before[i]) = Copies(after, before[i])

\* The rows are the targets of as many transitions, taken from distinct
\* positions of the buffer.
FromDistinctPositions(rows, buffer, live, target) ==
    \E position \in [DOMAIN rows -> DOMAIN buffer] :
        /\ \A i, j \in DOMAIN rows : position[i] = position[j] => i = j
        /\ \A i \in DOMAIN rows : rows[i] = TargetQ(buffer[position[i]], live, target)

\* C38: trainModel leaves the transitions of the replay buffer and their
\* number as they were, whatever their order, and when it trains, its batch
\* is batchSize transitions from distinct positions of the buffer it found.
C38_TrainModelKeepsTransitions ==
    [][/\ pushes' = pushes => SameTransitions(replayBuffer, replayBuffer')
       /\ (fitting = None /\ fitting' # None) =>
             /\ Len(fitting'[1]) = batchSize
             /\ FromDistinctPositions(fitting'[1], replayBuffer, model, targetModel')]_vars

\* trainModel is fitting a batch and has left the buffer in another order
\* than the one the transitions were stored in.
C38_Witness ==
    /\ fitting # None
    /\ Len(replayBuffer) >= batchSize
    /\ \E i, j \in DOMAIN replayBuffer : i < j /\ replayBuffer[i].id > replayBuffer[j].id


\* C40: while the restore that the constructor started is pending and the
\* directory of the identity holds saved weights, saveModel does not
\* replace them; so the weights of a surplus identity, saved by
\* initializeBots right after its agent is built, stay as they were.
C40_NoSaveBeforeRestore ==
    [][(loadState = "pending" /\ saved # None) => saved' = saved]_vars
=============================================================================
